---- MODULE Spec2Model ----
(***************************************************************************)
(* The transaction lifecycle and request construction of the rdf4j client: *)
(* RepositoryClient.beginTransaction, the TransactionClient methods and    *)
(* the HttpClient request path they go through.                            *)
(*                                                                         *)
(* Text is a sequence of atoms.  The atom "/" is the slash; every other    *)
(* atom is a non-empty run of characters without a slash (a digit, a sign  *)
(* and a blank are atoms of their own where a number is parsed).           *)
(* A JavaScript value is a record [t, s]: its type tag and its text as     *)
(* String(value) renders it.                                               *)
(***************************************************************************)
EXTENDS Integers, Sequences, FiniteSets, Bags, TLC

\* ------------------------------------------------------------------ bounds

\* Handles that beginTransaction may construct in one behaviour.
MaxHandles == 2

\* Requests that may be awaiting their response at the same time.
MaxInFlight == 2

\* ------------------------------------------------------------ JS values

Undefined == [t |-> "undefined", s |-> <<"undefined">>]

Str(text) == [t |-> "string", s |-> text]

Bool(b) == [t |-> "boolean", s |-> IF b THEN <<"true">> ELSE <<"false">>]

\* String(value), as buildUrl applies it to a parameter's value.
String(v) == v.s

\* !value: undefined, "" and false are falsy.
Falsy(v) ==
    \/ v.t = "undefined"
    \/ v.t = "string" /\ v.s = <<>>
    \/ v.t = "boolean" /\ v.s = <<"false">>

Digits == <<"0", "1", "2", "3", "4", "5", "6", "7", "8", "9">>

IsDigit(a) == \E i \in 1..10 : Digits[i] = a

DigitValue(a) == (CHOOSE i \in 1..10 : Digits[i] = a) - 1

RECURSIVE SkipBlanks(_)
SkipBlanks(text) ==
    IF text # <<>> /\ Head(text) = " " THEN SkipBlanks(Tail(text)) ELSE text

RECURSIVE DigitPrefix(_, _)
\* The value of the longest run of digits text starts with, continuing acc.
DigitPrefix(text, acc) ==
    IF text # <<>> /\ IsDigit(Head(text))
    THEN DigitPrefix(Tail(text), 10 * acc + DigitValue(Head(text)))
    ELSE acc

NaN == [nan |-> TRUE, n |-> 0]

Num(k) == [nan |-> FALSE, n |-> k]

\* parseInt(value, 10): blanks skipped, an optional sign, then the longest
\* run of digits; NaN when there is none.
parseInt(v) ==
    LET text == SkipBlanks(String(v))
        neg == text # <<>> /\ Head(text) = "-"
        rest == IF text # <<>> /\ Head(text) \in {"-", "+"} THEN Tail(text) ELSE text
    IN  IF rest = <<>> \/ ~IsDigit(Head(rest))
        THEN NaN
        ELSE Num(IF neg THEN 0 - DigitPrefix(rest, 0) ELSE DigitPrefix(rest, 0))

RECURSIVE LastSegment(_)
\* location.split("/").pop(): the text after the last slash.
LastSegment(text) ==
    IF text = <<>> THEN <<>>
    ELSE IF text[Len(text)] = "/" THEN <<>>
    ELSE Append(LastSegment(SubSeq(text, 1, Len(text) - 1)), text[Len(text)])

\* ------------------------------------------------------------ ContentTypes

TURTLE == <<"text", "/", "turtle">>

SPARQL_QUERY == <<"application", "/", "sparql-query">>

SPARQL_UPDATE == <<"application", "/", "sparql-update">>

SPARQL_RESULTS_JSON == <<"application", "/", "sparql-results+json">>

JSON == <<"application", "/", "json">>

TEXT == <<"text", "/", "plain">>

\* ------------------------------------------------------------- HttpClient

\* config.baseUrl, its trailing slash removed by the constructor.
baseUrl == <<"http:", "/", "/", "server">>

NoParams == [k \in {} |-> Undefined]

\* RequestOptions with every field absent.
NoOptions ==
    [params |-> NoParams, body |-> Undefined, contentType |-> Undefined,
     accept |-> Undefined, timeout |-> Undefined]

\* The keys of params, whatever their values.
SentKeysOfAll(params) == DOMAIN params

\* The keys buildUrl sets on url.searchParams.
SentKeys(params) == {k \in DOMAIN params : params[k] # Undefined}

buildUrl(path, params) ==
    LET normalizedPath == IF path # <<>> /\ Head(path) = "/" THEN Tail(path) ELSE path
    IN  [path |-> baseUrl \o <<"/">> \o normalizedPath,
         search |-> [k \in SentKeys(params) |-> String(params[k])]]

prepareBodyUntagged(options) ==
    [body |-> IF Falsy(options.body) THEN Undefined ELSE options.body,
     contentType |-> Undefined]

prepareBody(options) ==
    IF Falsy(options.body)
    THEN [body |-> Undefined, contentType |-> Undefined]
    ELSE [body |-> options.body,
          contentType |-> IF options.contentType = Undefined
                          THEN Str(TEXT) ELSE options.contentType]

\* What request / requestWithHeaders hand to fetch.
request(method, path, options) ==
    LET prepared == prepareBody(options)
    IN  [method |-> method,
         url |-> buildUrl(path, options.params),
         body |-> prepared.body,
         contentType |-> IF Falsy(prepared.contentType)
                         THEN Undefined ELSE prepared.contentType,
         accept |-> IF Falsy(options.accept) THEN Undefined ELSE options.accept,
         timeout |-> options.timeout]

\* ------------------------------------------------------------------ state

VARIABLES
    repositoryId,   \* RepositoryClient.repositoryId
    handles,        \* the TransactionClient objects constructed so far, in order
    inflight,       \* the bag of requests awaiting their response, each with its call
    last,           \* what the latest step did: the call made or the call settled
    store,          \* server: the statements of the repository
    txns,           \* server: the transactions it created, in order
    pc,             \* the caller's position in its script, and the handle it follows
    given           \* the arguments the caller holds for the calls it makes

clientVars == <<repositoryId, handles, inflight, last>>

serverVars == <<store, txns>>

vars == <<repositoryId, handles, inflight, last, store, txns, pc, given>>

\* -------------------------------------------------------- input domains

RepositoryIds == {"repo1", "repo2"}

\* IsolationLevel values a caller passes; Undefined is the omitted argument.
IsolationLevels == {Undefined, Str(<<"SNAPSHOT">>)}

Statements == {"s1", "s2"}

\* RDF documents a caller adds: text of one or two statements.
DataDocs == {Str(<<"s1">>), Str(<<"s1", "s2">>)}

Sparql == Str(<<"ASK {}">>)

\* ------------------------------------------------- TransactionClient

TransactionClient(repoId, txnId) ==
    [repositoryId |-> repoId, transactionId |-> txnId, active |-> TRUE]

basePath(txn) ==
    <<"/", "repositories", "/", txn.repositoryId, "/", "transactions", "/">>
        \o txn.transactionId

\* ensureActive with its check dropped.
ensureActiveUnchecked(txn) == TRUE

\* ensureActive returns (TRUE) or throws (FALSE).
ensureActive(txn) == txn.active

Action(name) == [action |-> Str(<<name>>)]

queryRequest(txn, sparql, infer, timeout) ==
    request("POST", basePath(txn),
            [NoOptions EXCEPT !.body = sparql,
                              !.contentType = Str(SPARQL_QUERY),
                              !.params = [action |-> Str(<<"QUERY">>), infer |-> infer],
                              !.accept = Str(SPARQL_RESULTS_JSON),
                              !.timeout = timeout])

updateRequest(txn, sparql, timeout) ==
    request("POST", basePath(txn),
            [NoOptions EXCEPT !.body = sparql,
                              !.contentType = Str(SPARQL_UPDATE),
                              !.params = Action("UPDATE"),
                              !.timeout = timeout])

addRequest(txn, data, contentType, context, baseURI) ==
    request("PUT", basePath(txn),
            [NoOptions EXCEPT !.body = data,
                              !.contentType = contentType,
                              !.params = [action |-> Str(<<"ADD">>),
                                          context |-> context,
                                          baseURI |-> baseURI]])

\* options.context of a statement filter: a list is joined with commas.
RECURSIVE join(_)
join(list) ==
    IF list = <<>> THEN <<>>
    ELSE IF Len(list) = 1 THEN list[1]
    ELSE list[1] \o <<",">> \o join(Tail(list))

\* The context of a filter read as a string only.
contextParamOfScalars(context) == context.value

\* A StatementOptions record: subj, pred, obj, infer are JS values; context is
\* [list |-> TRUE, items |-> <<text, ...>>] or [list |-> FALSE, value |-> JS value].
contextParam(context) ==
    IF context.list THEN Str(join(context.items)) ELSE context.value

NoStatementOptions ==
    [subj |-> Undefined, pred |-> Undefined, obj |-> Undefined,
     context |-> [list |-> FALSE, items |-> <<>>, value |-> Undefined],
     infer |-> Undefined, accept |-> Undefined]

\* delete of a transaction, the context of its filter left out.
deleteRequestWithoutContext(txn, options) ==
    request("POST", basePath(txn),
            [NoOptions EXCEPT !.params = [action |-> Str(<<"DELETE">>),
                                          subj |-> options.subj,
                                          pred |-> options.pred,
                                          obj |-> options.obj]])

deleteRequest(txn, options) ==
    request("POST", basePath(txn),
            [NoOptions EXCEPT !.params = [action |-> Str(<<"DELETE">>),
                                          subj |-> options.subj,
                                          pred |-> options.pred,
                                          obj |-> options.obj,
                                          context |-> contextParam(options.context)]])

getStatementsRequest(txn, options) ==
    request("POST", basePath(txn),
            [NoOptions EXCEPT !.params = [action |-> Str(<<"GET">>),
                                          subj |-> options.subj,
                                          pred |-> options.pred,
                                          obj |-> options.obj,
                                          context |-> contextParam(options.context),
                                          infer |-> options.infer],
                              !.accept = IF options.accept = Undefined
                                         THEN Str(TURTLE) ELSE options.accept])

sizeRequest(txn, context) ==
    request("POST", basePath(txn),
            [NoOptions EXCEPT !.params = [action |-> Str(<<"SIZE">>), context |-> context],
                              !.accept = Str(TEXT)])

\* commit sent as the data operations are, with POST.
commitRequestPost(txn) ==
    request("POST", basePath(txn), [NoOptions EXCEPT !.params = Action("COMMIT")])

commitRequest(txn) ==
    request("PUT", basePath(txn), [NoOptions EXCEPT !.params = Action("COMMIT")])

\* rollback sent with an action parameter, as commit is.
rollbackRequestWithAction(txn) ==
    request("DELETE", basePath(txn), [NoOptions EXCEPT !.params = Action("ROLLBACK")])

rollbackRequest(txn) ==
    request("DELETE", basePath(txn), NoOptions)

\* ping copied from size with its action left as it was.
pingRequestAsSize(txn) ==
    request("POST", basePath(txn), [NoOptions EXCEPT !.params = Action("SIZE")])

pingRequest(txn) ==
    request("POST", basePath(txn), [NoOptions EXCEPT !.params = Action("PING")])

\* ------------------------------------------------- RepositoryClient

repositoryPath(repoId) == <<"/", "repositories", "/", repoId>>

beginTransactionRequest(repoId, isolationLevel) ==
    request("POST", repositoryPath(repoId) \o <<"/", "transactions">>,
            [NoOptions EXCEPT !.params = IF Falsy(isolationLevel)
                                         THEN NoParams
                                         ELSE [k \in {"isolation-level"} |-> isolationLevel],
                              !.accept = Str(TEXT)])

repositorySizeRequest(repoId, context) ==
    request("GET", repositoryPath(repoId) \o <<"/", "size">>,
            [NoOptions EXCEPT !.params = [context |-> context],
                              !.accept = Str(TEXT)])

\* ----------------------------------------- RepositoryClient: the encoders

\* A number, with the text String gives it.
Number(k) == [t |-> "number", s |-> <<ToString(k)>>]

\* A string-or-list option (defaultGraphUri, namedGraphUri, usingGraphUri,
\* usingNamedGraphUri, a filter's context) is [list |-> TRUE, items |-> <<text,
\* ...>>] for an array and [list |-> FALSE, value |-> JS value] otherwise.
Scalar(v) == [list |-> FALSE, items |-> <<>>, value |-> v]

List(items) == [list |-> TRUE, items |-> items, value |-> Undefined]

\* The bindings option is a JS value: undefined, or an object whose entries
\* Object.entries lists in insertion order, each [name |-> text, value |-> text].
Object(entries) == [t |-> "object", s |-> <<"[object Object]">>, entries |-> entries]

\* QueryOptions with every field absent: what options?.field reads from an
\* omitted options argument.
NoQueryOptions ==
    [infer |-> Undefined, distinct |-> Undefined, limit |-> Undefined,
     offset |-> Undefined, defaultGraphUri |-> Scalar(Undefined),
     namedGraphUri |-> Scalar(Undefined), bindings |-> Undefined,
     timeout |-> Undefined, accept |-> Undefined]

\* The key a text names in a parameter object.
RECURSIVE Key(_)
Key(text) == IF text = <<>> THEN "" ELSE Head(text) \o Key(Tail(text))

\* params[key] = value.
set(params, key, value) ==
    [k \in DOMAIN params \cup {key} |-> IF k = key THEN value ELSE params[k]]

\* graphs.forEach((uri, i) => { params[`${key}${i > 0 ? i : ""}`] = uri; }),
\* from element i on.
RECURSIVE forEach(_, _, _, _)
forEach(params, key, graphs, i) ==
    IF i >= Len(graphs) THEN params
    ELSE forEach(set(params, key \o (IF i > 0 THEN ToString(i) ELSE ""),
                     Str(graphs[i + 1])),
                 key, graphs, i + 1)

\* The expansion of arrays only: a scalar is sent under no key.
graphParamsOfArrays(params, key, option) ==
    IF option.list THEN forEach(params, key, option.items, 0) ELSE params

\* if (option) { graphs = Array.isArray(option) ? option : [option]; forEach }:
\* an array is truthy, a scalar unless it is undefined or "".
graphParams(params, key, option) ==
    IF option.list THEN forEach(params, key, option.items, 0)
    ELSE IF Falsy(option.value) THEN params
    ELSE forEach(params, key, <<String(option.value)>>, 0)

\* The name of the variable as the key, without the "$".
bindingKeyOfName(key) == key

\* key.startsWith("$") ? key : `$${key}`
bindingKey(key) == IF key # <<>> /\ Head(key) = "$" THEN key ELSE <<"$">> \o key

\* for (const [key, value] of Object.entries(bindings)) params[bindingKey] = value
RECURSIVE forBindings(_, _)
forBindings(params, entries) ==
    IF entries = <<>> THEN params
    ELSE forBindings(set(params, Key(bindingKey(entries[1].name)),
                         Str(entries[1].value)),
                     Tail(entries))

\* The encoder sending a flag only when it is truthy (options.infer || undefined).
buildQueryParamsOfTruthy(query, options) ==
    LET truthy(v) == IF Falsy(v) \/ v = Number(0) THEN Undefined ELSE v
        params == [query |-> query, queryLn |-> Str(<<"sparql">>),
                   infer |-> truthy(options.infer), distinct |-> truthy(options.distinct),
                   limit |-> truthy(options.limit), offset |-> truthy(options.offset)]
        default == graphParams(params, "default-graph-uri", options.defaultGraphUri)
        named == graphParams(default, "named-graph-uri", options.namedGraphUri)
    IN  IF Falsy(options.bindings) THEN named
        ELSE forBindings(named, options.bindings.entries)

buildQueryParams(query, options) ==
    LET params == [query |-> query, queryLn |-> Str(<<"sparql">>),
                   infer |-> options.infer, distinct |-> options.distinct,
                   limit |-> options.limit, offset |-> options.offset]
        default == graphParams(params, "default-graph-uri", options.defaultGraphUri)
        named == graphParams(default, "named-graph-uri", options.namedGraphUri)
    IN  IF Falsy(options.bindings) THEN named
        ELSE forBindings(named, options.bindings.entries)

\* The params as they were built, the query still among them.
restParamsWithQuery(params) == params

\* const { query: _, ...restParams } = params
restParams(params) == [k \in DOMAIN params \ {"query"} |-> params[k]]

\* The options of updateWithGraphs with every field absent.
NoUpdateOptions ==
    [usingGraphUri |-> Scalar(Undefined), usingNamedGraphUri |-> Scalar(Undefined),
     removeGraphUri |-> Undefined, insertGraphUri |-> Undefined,
     timeout |-> Undefined]

\* The params updateWithGraphs builds.
updateWithGraphsParams(options) ==
    LET params == [k \in {"remove-graph-uri", "insert-graph-uri"} |->
                      IF k = "remove-graph-uri" THEN options.removeGraphUri
                      ELSE options.insertGraphUri]
        using == graphParams(params, "using-graph-uri", options.usingGraphUri)
    IN  graphParams(using, "using-named-graph-uri", options.usingNamedGraphUri)

\* ------------------------------ the requests of the stateless operations

\* The request each RepositoryClient method hands to the HttpClient, by the
\* method's name (query, update, add, getStatements and delete are
\* repositoryQuery, ... here: the transaction's methods have those names).
RepositoryClientRequest(op, repoId, args) ==
    LET base == repositoryPath(repoId)
        statements == [NoOptions EXCEPT !.body = args[1],
                                        !.contentType = args[2].contentType,
                                        !.params = [context |-> args[2].context,
                                                    baseURI |-> args[2].baseURI]]
        namespace == base \o <<"/", "namespaces", "/">> \o args[1]
        turtle == IF args[1].accept = Undefined THEN Str(TURTLE) ELSE args[1].accept
    IN  CASE op = "getConfig" ->
                request("GET", base \o <<"/", "config">>,
                        [NoOptions EXCEPT !.accept = Str(TURTLE)])
          [] op \in {"repositoryQuery", "ask"} ->
                request("GET", base,
                        [NoOptions EXCEPT !.params = buildQueryParams(args[1], args[2]),
                                          !.accept = Str(SPARQL_RESULTS_JSON),
                                          !.timeout = args[2].timeout])
          [] op = "queryPost" ->
                request("POST", base,
                        [NoOptions EXCEPT
                            !.body = args[1],
                            !.contentType = Str(SPARQL_QUERY),
                            !.params = restParams(buildQueryParams(args[1], args[2])),
                            !.accept = Str(SPARQL_RESULTS_JSON),
                            !.timeout = args[2].timeout])
          [] op = "construct" ->
                request("GET", base,
                        [NoOptions EXCEPT !.params = buildQueryParams(args[1], args[2]),
                                          !.accept = IF args[2].accept = Undefined
                                                     THEN Str(TURTLE) ELSE args[2].accept,
                                          !.timeout = args[2].timeout])
          [] op = "describe" ->
                request("GET", base,
                        [NoOptions EXCEPT
                            !.params = [query |-> Str(<<"DESCRIBE <">> \o args[1] \o <<">">>)],
                            !.accept = IF args[2] = Undefined THEN Str(TURTLE) ELSE args[2]])
          [] op = "repositoryUpdate" ->
                request("POST", base \o <<"/", "statements">>,
                        [NoOptions EXCEPT !.body = args[1],
                                          !.contentType = Str(SPARQL_UPDATE),
                                          !.timeout = args[2]])
          [] op = "updateWithGraphs" ->
                request("POST", base \o <<"/", "statements">>,
                        [NoOptions EXCEPT !.body = args[1],
                                          !.contentType = Str(SPARQL_UPDATE),
                                          !.params = updateWithGraphsParams(args[2]),
                                          !.timeout = args[2].timeout])
          [] op = "repositoryAdd" -> request("POST", base \o <<"/", "statements">>, statements)
          [] op = "replace" -> request("PUT", base \o <<"/", "statements">>, statements)
          [] op = "repositoryGetStatements" ->
                request("GET", base \o <<"/", "statements">>,
                        [NoOptions EXCEPT !.accept = turtle,
                                          !.params = [subj |-> args[1].subj,
                                                      pred |-> args[1].pred,
                                                      obj |-> args[1].obj,
                                                      context |-> contextParam(args[1].context),
                                                      infer |-> args[1].infer]])
          [] op = "repositoryDelete" ->
                request("DELETE", base \o <<"/", "statements">>,
                        [NoOptions EXCEPT !.params = [subj |-> args[1].subj,
                                                      pred |-> args[1].pred,
                                                      obj |-> args[1].obj,
                                                      context |-> contextParam(args[1].context)]])
          [] op = "export" ->
                \* context is passed as it is; of an array, String gives the
                \* elements joined by commas.
                request("GET", base \o <<"/", "statements">>,
                        [NoOptions EXCEPT !.accept = turtle,
                                          !.params = [context |-> contextParam(args[1].context)]])
          [] op = "contexts" ->
                request("GET", base \o <<"/", "contexts">>,
                        [NoOptions EXCEPT !.accept = Str(SPARQL_RESULTS_JSON)])
          [] op = "namespaces" ->
                request("GET", base \o <<"/", "namespaces">>,
                        [NoOptions EXCEPT !.accept = Str(SPARQL_RESULTS_JSON)])
          [] op = "getNamespace" ->
                request("GET", namespace, [NoOptions EXCEPT !.accept = Str(TEXT)])
          [] op = "setNamespace" ->
                request("PUT", namespace,
                        [NoOptions EXCEPT !.body = args[2], !.contentType = Str(TEXT)])
          [] op = "deleteNamespace" -> request("DELETE", namespace, NoOptions)
          [] op = "clearNamespaces" ->
                request("DELETE", base \o <<"/", "namespaces">>, NoOptions)
          [] op = "clear" ->
                request("DELETE", base \o <<"/", "statements">>,
                        [NoOptions EXCEPT !.params = [context |-> args[1]]])

encodeURIComponentOfNothing(text) == text

\* encodeURIComponent on the atoms of a name: "/" is escaped, a segment of
\* unreserved characters is kept.
encodeURIComponent(text) == [i \in DOMAIN text |-> IF text[i] = "/" THEN "%2F" ELSE text[i]]

\* The request each GraphStoreClient method hands to the HttpClient (get, put,
\* post and delete are graphGet, ... here).
GraphStoreClientRequest(op, repoId, args) ==
    LET base == repositoryPath(repoId) \o <<"/", "rdf-graphs">>
        defaultGraphUrl == base \o <<"/", "service", "?", "default">>
        service == base \o <<"/", "service">>
        direct == base \o <<"/">> \o encodeURIComponent(args[1])
        graph == [graph |-> args[1]]
    IN  CASE op = "getDefault" ->
                request("GET", defaultGraphUrl,
                        [NoOptions EXCEPT !.accept = IF args[1] = Undefined
                                                     THEN Str(TURTLE) ELSE args[1]])
          [] op = "putDefault" ->
                request("PUT", defaultGraphUrl,
                        [NoOptions EXCEPT !.body = args[1], !.contentType = args[2]])
          [] op = "postDefault" ->
                request("POST", defaultGraphUrl,
                        [NoOptions EXCEPT !.body = args[1], !.contentType = args[2]])
          [] op = "deleteDefault" -> request("DELETE", defaultGraphUrl, NoOptions)
          [] op = "graphGet" ->
                request("GET", service,
                        [NoOptions EXCEPT !.params = graph,
                                          !.accept = IF args[2] = Undefined
                                                     THEN Str(TURTLE) ELSE args[2]])
          [] op = "graphPut" ->
                request("PUT", service,
                        [NoOptions EXCEPT !.body = args[2], !.contentType = args[3],
                                          !.params = graph])
          [] op = "graphPost" ->
                request("POST", service,
                        [NoOptions EXCEPT !.body = args[2], !.contentType = args[3],
                                          !.params = graph])
          [] op = "graphDelete" ->
                request("DELETE", service, [NoOptions EXCEPT !.params = graph])
          [] op = "getDirect" ->
                request("GET", direct,
                        [NoOptions EXCEPT !.accept = IF args[2] = Undefined
                                                     THEN Str(TURTLE) ELSE args[2]])
          [] op = "putDirect" ->
                request("PUT", direct,
                        [NoOptions EXCEPT !.body = args[2], !.contentType = args[3]])
          [] op = "postDirect" ->
                request("POST", direct,
                        [NoOptions EXCEPT !.body = args[2], !.contentType = args[3]])
          [] op = "deleteDirect" -> request("DELETE", direct, NoOptions)
          [] op = "exists" -> request("HEAD", service, [NoOptions EXCEPT !.params = graph])

\* The request each RDF4JClient method hands to the HttpClient.  createRepository
\* sends config.configTurtle (args[2]), the generated default when it is absent
\* (args[3]).
RDF4JClientRequest(op, args) ==
    CASE op = "getProtocol" ->
            request("GET", <<"/", "protocol">>, [NoOptions EXCEPT !.accept = Str(TEXT)])
      [] op = "listRepositories" ->
            request("GET", <<"/", "repositories">>,
                    [NoOptions EXCEPT !.accept = Str(SPARQL_RESULTS_JSON)])
      [] op = "createRepository" ->
            request("PUT", <<"/", "repositories", "/", args[1]>>,
                    [NoOptions EXCEPT !.body = IF args[2] = Undefined THEN args[3] ELSE args[2],
                                      !.contentType = Str(TURTLE)])
      [] op = "deleteRepository" ->
            request("DELETE", <<"/", "repositories", "/", args[1]>>, NoOptions)
      [] op = "repositoryExists" ->
            request("HEAD", <<"/", "repositories", "/", args[1]>>, NoOptions)

\* ------------------------------------------------------- calls and events

TransactionNotActive == "Transaction is no longer active"

MissingTransactionId == "Failed to get transaction ID from response"

\* The error a failed request rejects with: a non-success status (RDF4JError),
\* a network failure (fetch's TypeError), the timeout's abort (AbortError).
TransportErrors == {"RDF4JError", "TypeError", "AbortError"}

\* error.status as a caller reads it.  Only the RDF4JError has the property
\* (the response's status, here 500): the Error of ensureActive is built
\* from a message alone, and what fetch rejects with (the TypeError of a
\* network failure, the AbortError of the timeout) leaves request as it is.
status(error) == IF error = "RDF4JError" THEN Number(500) ELSE Undefined

\* A reply is [ok, error, body, location]: whether the request succeeded, the
\* error it failed with, the decoded response body, the Location header
\* (Undefined: the header is absent).
Failure(error) ==
    [ok |-> FALSE, error |-> error, body |-> Undefined, location |-> Undefined]

Success(body, location) ==
    [ok |-> TRUE, error |-> "none", body |-> body, location |-> location]

NoReply == Failure("none")

\* A call: the method op of handle h (0: of the RepositoryClient), its
\* arguments, the request it sent.
CallOf(op, h, args, req) == [op |-> op, h |-> h, args |-> args, req |-> req]

\* An event is what one step did.  A call either sent its request and awaits
\* the response, or threw before sending anything.
Pending(call) ==
    [kind |-> "call", op |-> call.op, h |-> call.h, outcome |-> "pending",
     error |-> "none", sent |-> <<call.req>>, reply |-> NoReply, ret |-> NaN]

Thrown(op, h, error) ==
    [kind |-> "call", op |-> op, h |-> h, outcome |-> "rejected",
     error |-> error, sent |-> <<>>, reply |-> NoReply, ret |-> NaN]

\* Call c, whose request got reply, resolved with ret or rejected with error.
Resolved(c, reply, ret) ==
    [kind |-> "settle", op |-> c.op, h |-> c.h, outcome |-> "resolved",
     error |-> "none", sent |-> <<>>, reply |-> reply, ret |-> ret]

Rejected(c, reply, error) ==
    [kind |-> "settle", op |-> c.op, h |-> c.h, outcome |-> "rejected",
     error |-> error, sent |-> <<>>, reply |-> reply, ret |-> NaN]

Void == Num(0)

InFlight == BagToSet(inflight)

\* fetch is called: the request is on the wire and the call suspends at its await.
Send(call) ==
    /\ BagCardinality(inflight) < MaxInFlight
    /\ inflight' = inflight (+) SetToBag({call})
    /\ last' = Pending(call)
    /\ UNCHANGED <<repositoryId, handles>>

Throw(op, h, error) ==
    /\ last' = Thrown(op, h, error)
    /\ UNCHANGED <<repositoryId, handles, inflight>>

\* A method that sends its request without the check before it.
GuardedAfterwards(call) == Send(call)

\* The check and the flag update as one atomic step: a handle whose commit or
\* rollback is awaiting its response refuses the calls that follow.
GuardedExclusively(call) ==
    IF /\ ensureActive(handles[call.h])
       /\ \A c \in InFlight : c.h = call.h => c.op \notin {"commit", "rollback"}
    THEN Send(call)
    ELSE Throw(call.op, call.h, TransactionNotActive)

\* The guarded template of every TransactionClient method: ensureActive, then
\* the request, both before the method's first await.
Guarded(call) ==
    IF ensureActive(handles[call.h])
    THEN Send(call)
    ELSE Throw(call.op, call.h, TransactionNotActive)

Handles == DOMAIN handles

\* The query that forwards every option the encoder of the repository's
\* query sends.
queryWithOptions(h, sparql, options) ==
    /\ h \in Handles
    /\ Guarded(CallOf("query", h, <<sparql, options>>,
                      request("POST", basePath(handles[h]),
                              [NoOptions EXCEPT
                                  !.body = sparql,
                                  !.contentType = Str(SPARQL_QUERY),
                                  !.params = [action |-> Str(<<"QUERY">>)]
                                                 @@ restParams(buildQueryParams(sparql, options)),
                                  !.accept = Str(SPARQL_RESULTS_JSON),
                                  !.timeout = options.timeout])))

query(h, sparql, options) ==
    /\ h \in Handles
    /\ Guarded(CallOf("query", h, <<sparql, options>>,
                      queryRequest(handles[h], sparql, options.infer, options.timeout)))

update(h, sparql) ==
    /\ h \in Handles
    /\ Guarded(CallOf("update", h, <<sparql>>,
                      updateRequest(handles[h], sparql, Undefined)))

add(h, data) ==
    /\ h \in Handles
    /\ Guarded(CallOf("add", h, <<data>>,
                      addRequest(handles[h], data, Str(TURTLE), Undefined, Undefined)))

delete(h, options) ==
    /\ h \in Handles
    /\ Guarded(CallOf("delete", h, <<options>>, deleteRequest(handles[h], options)))

getStatements(h, options) ==
    /\ h \in Handles
    /\ Guarded(CallOf("getStatements", h, <<options>>,
                      getStatementsRequest(handles[h], options)))

size(h, context) ==
    /\ h \in Handles
    /\ Guarded(CallOf("size", h, <<context>>, sizeRequest(handles[h], context)))

commit(h) ==
    /\ h \in Handles
    /\ Guarded(CallOf("commit", h, <<>>, commitRequest(handles[h])))

rollback(h) ==
    /\ h \in Handles
    /\ Guarded(CallOf("rollback", h, <<>>, rollbackRequest(handles[h])))

ping(h) ==
    /\ h \in Handles
    /\ Guarded(CallOf("ping", h, <<>>, pingRequest(handles[h])))

BeginsInFlight ==
    BagCardinality([c \in {d \in InFlight : d.op = "beginTransaction"} |-> inflight[c]])

beginTransaction(isolationLevel) ==
    /\ Len(handles) + BeginsInFlight < MaxHandles
    /\ Send(CallOf("beginTransaction", 0, <<isolationLevel>>,
                   beginTransactionRequest(repositoryId, isolationLevel)))

repositorySize(context) ==
    Send(CallOf("repositorySize", 0, <<context>>,
                repositorySizeRequest(repositoryId, context)))

\* A method of the RDF4JClient, of the RepositoryClient it gives, of that
\* client's GraphStoreClient: one request, made before the method's first await.
\* A top-level client that keeps the repository it was last asked about.
RDF4JClientSelecting(op, args) ==
    LET call == CallOf(op, 0, args, RDF4JClientRequest(op, args))
    IN  /\ BagCardinality(inflight) < MaxInFlight
        /\ inflight' = inflight (+) SetToBag({call})
        /\ last' = Pending(call)
        /\ repositoryId' = IF op \in {"deleteRepository", "repositoryExists"}
                           THEN args[1] ELSE repositoryId
        /\ UNCHANGED handles

RDF4JClient(op, args) == Send(CallOf(op, 0, args, RDF4JClientRequest(op, args)))

repository(op, args) ==
    Send(CallOf(op, 0, args, RepositoryClientRequest(op, repositoryId, args)))

graphStore(op, args) ==
    Send(CallOf(op, 0, args, GraphStoreClientRequest(op, repositoryId, args)))

\* ------------------------------------------------------- continuations

Settled(c) == inflight (-) SetToBag({c})

\* beginTransaction without its check of the identifier.
beginTransactionResumeAnyId(c, reply) ==
    LET location == IF reply.location = Undefined THEN <<>> ELSE String(reply.location)
        txnId == LastSegment(location)
    IN  /\ c.op = "beginTransaction"
        /\ inflight' = Settled(c)
        /\ IF ~reply.ok
           THEN last' = Rejected(c, reply, reply.error) /\ handles' = handles
           ELSE /\ handles' = Append(handles, TransactionClient(repositoryId, txnId))
                /\ last' = Resolved(c, reply, Void)
        /\ UNCHANGED repositoryId

\* beginTransaction after its await.
beginTransactionResume(c, reply) ==
    LET location == IF reply.location = Undefined THEN <<>> ELSE String(reply.location)
        txnId == LastSegment(location)
    IN  /\ c.op = "beginTransaction"
        /\ inflight' = Settled(c)
        /\ IF ~reply.ok
           THEN last' = Rejected(c, reply, reply.error) /\ handles' = handles
           ELSE IF txnId = <<>>
           THEN last' = Rejected(c, reply, MissingTransactionId) /\ handles' = handles
           ELSE /\ handles' = Append(handles, TransactionClient(repositoryId, txnId))
                /\ last' = Resolved(c, reply, Void)
        /\ UNCHANGED repositoryId

\* commit clearing the flag in a finally block: also when the request failed.
commitResumeFinally(c, reply) ==
    /\ c.op = "commit"
    /\ inflight' = Settled(c)
    /\ handles' = [handles EXCEPT ![c.h].active = FALSE]
    /\ last' = IF reply.ok THEN Resolved(c, reply, Void) ELSE Rejected(c, reply, reply.error)
    /\ UNCHANGED repositoryId

\* commit clearing a flag that all handles share.
commitResumeShared(c, reply) ==
    /\ c.op = "commit"
    /\ inflight' = Settled(c)
    /\ IF reply.ok
       THEN /\ handles' = [h \in DOMAIN handles |-> [handles[h] EXCEPT !.active = FALSE]]
            /\ last' = Resolved(c, reply, Void)
       ELSE /\ handles' = handles
            /\ last' = Rejected(c, reply, reply.error)
    /\ UNCHANGED repositoryId

\* commit after its await: this.active = false.
commitResume(c, reply) ==
    /\ c.op = "commit"
    /\ inflight' = Settled(c)
    /\ IF reply.ok
       THEN /\ handles' = [handles EXCEPT ![c.h].active = FALSE]
            /\ last' = Resolved(c, reply, Void)
       ELSE /\ handles' = handles
            /\ last' = Rejected(c, reply, reply.error)
    /\ UNCHANGED repositoryId

\* rollback clearing the flag before it looks at the response.
rollbackResumeEager(c, reply) ==
    /\ c.op = "rollback"
    /\ inflight' = Settled(c)
    /\ handles' = [handles EXCEPT ![c.h].active = FALSE]
    /\ last' = IF reply.ok THEN Resolved(c, reply, Void) ELSE Rejected(c, reply, reply.error)
    /\ UNCHANGED repositoryId

\* rollback after its await: this.active = false.
rollbackResume(c, reply) ==
    /\ c.op = "rollback"
    /\ inflight' = Settled(c)
    /\ IF reply.ok
       THEN /\ handles' = [handles EXCEPT ![c.h].active = FALSE]
            /\ last' = Resolved(c, reply, Void)
       ELSE /\ handles' = handles
            /\ last' = Rejected(c, reply, reply.error)
    /\ UNCHANGED repositoryId

\* size hardened: a result that is not a number is an error.
sizeResumeStrict(c, reply) ==
    /\ c.op \in {"size", "repositorySize"}
    /\ inflight' = Settled(c)
    /\ last' = IF reply.ok /\ ~parseInt(reply.body).nan
               THEN Resolved(c, reply, parseInt(reply.body))
               ELSE Rejected(c, reply, IF reply.ok THEN "RangeError" ELSE reply.error)
    /\ UNCHANGED <<repositoryId, handles>>

\* size (of a transaction, of the repository) after its await: parseInt(result, 10).
sizeResume(c, reply) ==
    /\ c.op \in {"size", "repositorySize"}
    /\ inflight' = Settled(c)
    /\ last' = IF reply.ok THEN Resolved(c, reply, parseInt(reply.body))
               ELSE Rejected(c, reply, reply.error)
    /\ UNCHANGED <<repositoryId, handles>>

\* A data operation that gives the transaction up when its request fails.
returnResumeClosing(c, reply) ==
    /\ c.op \in {"query", "update", "add", "delete", "getStatements", "ping"}
    /\ inflight' = Settled(c)
    /\ last' = IF reply.ok THEN Resolved(c, reply, Void) ELSE Rejected(c, reply, reply.error)
    /\ handles' = IF reply.ok THEN handles ELSE [handles EXCEPT ![c.h].active = FALSE]
    /\ UNCHANGED repositoryId

\* query, update, add, delete, getStatements, ping after their await.
returnResume(c, reply) ==
    /\ c.op \in {"query", "update", "add", "delete", "getStatements", "ping"}
    /\ inflight' = Settled(c)
    /\ last' = IF reply.ok THEN Resolved(c, reply, Void) ELSE Rejected(c, reply, reply.error)
    /\ UNCHANGED <<repositoryId, handles>>

Null == [t |-> "null", s |-> <<"null">>]

\* The existence checks that let the failure of their request through.
existsResumeThrowing(c, reply) ==
    /\ c.op \in {"repositoryExists", "exists"}
    /\ inflight' = Settled(c)
    /\ last' = IF reply.ok THEN Resolved(c, reply, Bool(TRUE))
               ELSE Rejected(c, reply, reply.error)
    /\ UNCHANGED <<repositoryId, handles>>

\* repositoryExists and the graph store's exists after their await:
\* try { await head; return true } catch { return false }.
existsResume(c, reply) ==
    /\ c.op \in {"repositoryExists", "exists"}
    /\ inflight' = Settled(c)
    /\ last' = Resolved(c, reply, Bool(reply.ok))
    /\ UNCHANGED <<repositoryId, handles>>

\* getNamespace that lets the failure of its request through.
getNamespaceResumeThrowing(c, reply) ==
    /\ c.op = "getNamespace"
    /\ inflight' = Settled(c)
    /\ last' = IF reply.ok THEN Resolved(c, reply, reply.body)
               ELSE Rejected(c, reply, reply.error)
    /\ UNCHANGED <<repositoryId, handles>>

\* getNamespace after its await: try { return await get } catch { return null }.
getNamespaceResume(c, reply) ==
    /\ c.op = "getNamespace"
    /\ inflight' = Settled(c)
    /\ last' = Resolved(c, reply, IF reply.ok THEN reply.body ELSE Null)
    /\ UNCHANGED <<repositoryId, handles>>

\* The methods that return what this.http.get resolved with.
Getters ==
    {"getProtocol", "getConfig", "repositoryQuery", "queryPost", "construct",
     "describe", "repositoryGetStatements", "export", "getDefault", "graphGet",
     "getDirect"}

\* The methods that read a field of the decoded result after their await
\* (result.boolean, result.results.bindings).
Readers == {"ask", "listRepositories", "contexts", "namespaces"}

\* The methods that await their request and return nothing.
Voids ==
    {"createRepository", "deleteRepository", "repositoryUpdate", "updateWithGraphs",
     "repositoryAdd", "replace", "repositoryDelete", "setNamespace",
     "deleteNamespace", "clearNamespaces", "clear", "putDefault", "postDefault",
     "deleteDefault", "graphPut", "graphPost", "graphDelete", "putDirect",
     "postDirect", "deleteDirect"}

\* Those methods, a failed request answered with the fallback of getNamespace.
awaitResumeAbsorbing(c, reply) ==
    /\ c.op \in Getters \cup Readers \cup Voids
    /\ inflight' = Settled(c)
    /\ last' = Resolved(c, reply, IF reply.ok THEN Void ELSE Null)
    /\ UNCHANGED <<repositoryId, handles>>

\* for (const binding of bindings) { if (prefix && namespace)
\* namespaces[prefix] = namespace; }, continuing namespaces.
RECURSIVE namespacesOf(_, _)
namespacesOf(namespaces, bindings) ==
    IF bindings = <<>> THEN namespaces
    ELSE LET prefix == bindings[1].prefix
             namespace == bindings[1].namespace
         IN  namespacesOf(IF ~Falsy(prefix) /\ ~Falsy(namespace)
                          THEN set(namespaces, Key(prefix.s), namespace.s)
                          ELSE namespaces,
                          Tail(bindings))

\* What a reader returns of the decoded result: result.boolean, or the
\* bindings mapped (value ?? "", value === "true") or collected.
read(op, result) ==
    LET bindings == result.bindings
        orEmpty(v) == IF v = Undefined THEN <<>> ELSE v.s
    IN  CASE op = "ask" -> result.boolean
          [] op = "contexts" -> [i \in DOMAIN bindings |-> orEmpty(bindings[i].contextID)]
          [] op = "namespaces" -> namespacesOf(<<>>, bindings)
          [] op = "listRepositories" ->
                [i \in DOMAIN bindings |->
                    [id |-> orEmpty(bindings[i].id),
                     title |-> orEmpty(bindings[i].title),
                     uri |-> orEmpty(bindings[i].uri),
                     readable |-> bindings[i].readable = Str(<<"true">>),
                     writable |-> bindings[i].writable = Str(<<"true">>)]]

\* Every other method of the three stateless clients after its await: no
\* try/catch, so the rejection of its request is the method's.  A reader
\* throws a TypeError on a result that is undefined.
awaitResume(c, reply) ==
    /\ c.op \in Getters \cup Readers \cup Voids
    /\ inflight' = Settled(c)
    /\ last' = IF ~reply.ok THEN Rejected(c, reply, reply.error)
               ELSE IF c.op \in Voids THEN Resolved(c, reply, Void)
               ELSE IF c.op \in Getters THEN Resolved(c, reply, reply.body)
               ELSE IF reply.body = Undefined THEN Rejected(c, reply, "TypeError")
               ELSE Resolved(c, reply, read(c.op, reply.body))
    /\ UNCHANGED <<repositoryId, handles>>

\* ------------------------------------------------------------ the callers

\* A caller that holds no arguments of its own: each call draws its own.
NoArguments == [kind |-> "none"]

At(position, h) == [at |-> position, h |-> h]

\* No script: callers call at will and their calls overlap.
Free == At("free", 0)

\* The call the transaction tests make next at a position.
Expected(position, call) ==
    CASE position.at = "start" -> call.op = "beginTransaction"
      [] position.at = "begun" -> call.op = "add" /\ call.h = 1 /\ Len(call.args[1].s) = 1
      [] position.at = "added" -> call.op = "size" /\ call.h = 1
      [] position.at = "sized" -> call.op \in {"commit", "rollback"} /\ call.h = 1
      [] position.at \in {"committed", "rolledBack"} -> call.op = "repositorySize"
      [] OTHER -> FALSE

\* The transaction tests (commit persists changes, rollback discards changes):
\* begin, add one statement, size, commit or rollback, then the repository's
\* size.  "off": the calls made are not the test's; "broken": a call of the
\* test threw.
TestScript(position, event, call) ==
    IF position.at \in {"off", "broken"} THEN position
    ELSE IF ~Expected(position, call) THEN At("off", 0)
    ELSE IF event.outcome = "pending" THEN position
    ELSE IF event.outcome = "rejected" THEN At("broken", 0)
    ELSE CASE position.at = "start" -> At("begun", 1)
           [] position.at = "begun" -> At("added", 1)
           [] position.at = "added" -> At("sized", 1)
           [] position.at = "sized" /\ call.op = "commit" -> At("committed", 1)
           [] position.at = "sized" /\ call.op = "rollback" -> At("rolledBack", 1)
           [] position.at = "committed" -> At("committedSize", 1)
           [] position.at = "rolledBack" -> At("rolledBackSize", 1)

CloseOps == {"commit", "rollback"}

\* A caller that retries: "watch" until the request of a commit or rollback
\* fails; "failed" right then, on that handle, and "later" once other calls
\* have followed; "retrying" while the next commit or rollback on that handle
\* awaits ("refused" had it thrown); then "closed" when it succeeds ("over"
\* from the next call on), "failed" when it fails again.
RetryScript(position, event, call) ==
    CASE position.at = "watch" ->
            IF event.kind = "settle" /\ call.op \in CloseOps /\ ~event.reply.ok
            THEN At("failed", call.h) ELSE position
      [] position.at \in {"failed", "later"} ->
            IF event.kind = "call" /\ call.op \in CloseOps /\ call.h = position.h
            THEN (IF event.outcome = "pending"
                  THEN At("retrying", position.h) ELSE At("refused", position.h))
            ELSE At("later", position.h)
      [] position.at = "retrying" ->
            IF event.kind = "settle"
            THEN (IF event.reply.ok THEN At("closed", position.h) ELSE At("failed", position.h))
            ELSE position
      [] position.at = "closed" -> At("over", position.h)
      [] OTHER -> position

Script(position, event, call) ==
    IF position = Free THEN Free
    ELSE IF position.at \in {"watch", "failed", "later", "retrying", "refused", "closed", "over"}
    THEN RetryScript(position, event, call)
    ELSE TestScript(position, event, call)

\* A scripted caller awaits each call before it makes the next.
Awaited == pc = Free \/ inflight = EmptyBag

\* The call a call step made: the one it sent, or the one that threw.
Made == IF last'.sent # <<>>
        THEN CHOOSE c \in BagToSet(inflight') : c.req = last'.sent[1] /\ c.op = last'.op
        ELSE CallOf(last'.op, last'.h, <<>>, NoOptions)

\* A caller makes the call Method.
Caller(Method) ==
    /\ Awaited
    /\ Method
    /\ pc' = Script(pc, last', Made)
    /\ UNCHANGED <<store, txns, given>>

Call ==
    \/ \E h \in Handles : Caller(query(h, Sparql, NoQueryOptions))
    \/ \E h \in Handles : Caller(update(h, Sparql))
    \/ \E h \in Handles, data \in DataDocs : Caller(add(h, data))
    \/ \E h \in Handles : Caller(delete(h, NoStatementOptions))
    \/ \E h \in Handles : Caller(getStatements(h, NoStatementOptions))
    \/ \E h \in Handles : Caller(size(h, Undefined))
    \/ \E h \in Handles : Caller(commit(h))
    \/ \E h \in Handles : Caller(rollback(h))
    \/ \E h \in Handles : Caller(ping(h))
    \/ \E isolationLevel \in IsolationLevels : Caller(beginTransaction(isolationLevel))
    \/ Caller(repositorySize(Undefined))

\* ------------------------------------------------- an arbitrary server

\* The identifier of the k-th transaction a server creates.
TxnId(k) == <<"txn", Digits[k + 1]>>

TransactionUrl(repoId, txnId) ==
    baseUrl \o <<"/", "repositories", "/", repoId, "/", "transactions", "/">> \o txnId

\* Location headers a server may answer a transaction's creation with: none,
\* the transaction's URL, that URL with a trailing slash, the bare identifier.
LocationHeaders(repoId, txnId) ==
    {Undefined,
     Str(TransactionUrl(repoId, txnId)),
     Str(TransactionUrl(repoId, txnId \o <<"/">>)),
     Str(txnId)}

SizeBodies ==
    {Str(<<"1", "2">>), Str(<<"x">>), Str(<<"1", "2", "3", "4", "5">>), Str(<<>>), Undefined}

\* The decoded JSON results a server may answer a reader with: the boolean of
\* an ASK, the bindings of a table.  A binding is given by the values its
\* variables are bound to (binding.name?.value, Undefined for a variable
\* that is not bound).
Results(op) ==
    LET table(rows) == {[t |-> "object", s |-> <<"[object Object]">>, bindings |-> r] :
                           r \in rows}
        rdf == Str(<<"http:", "/", "/", "rdf#">>)
        rdfs == Str(<<"http:", "/", "/", "rdfs#">>)
    IN  IF op = "ask"
        THEN {[t |-> "object", s |-> <<"[object Object]">>, boolean |-> Bool(TRUE)]}
        ELSE IF op = "namespaces"
        THEN table({<<>>,
                    <<[prefix |-> Str(<<"rdf">>), namespace |-> rdf],
                      [prefix |-> Str(<<"rdfs">>), namespace |-> rdfs]>>,
                    <<[prefix |-> Str(<<>>), namespace |-> rdf]>>,
                    <<[prefix |-> Str(<<"rdf">>), namespace |-> Undefined],
                      [prefix |-> Undefined, namespace |-> rdfs]>>,
                    <<[prefix |-> Str(<<"rdf">>), namespace |-> rdf],
                      [prefix |-> Str(<<"rdf">>), namespace |-> rdfs]>>})
        ELSE IF op = "contexts"
        THEN table({<<>>, <<[contextID |-> Str(<<"urn:g1">>)], [contextID |-> Undefined]>>})
        ELSE table({<<>>,
                    <<[id |-> Str(<<"repo1">>), title |-> Undefined, uri |-> Str(<<"urn:r">>),
                       readable |-> Str(<<"true">>), writable |-> Str(<<"false">>)]>>})

\* Every way the request of call c may end.
Replies(c) ==
    {Failure(e) : e \in TransportErrors}
        \cup (IF c.op = "beginTransaction"
              THEN {Success(Undefined, l) :
                        l \in LocationHeaders(repositoryId, TxnId(Len(handles) + 1))}
              ELSE IF c.op \in {"size", "repositorySize"}
              THEN {Success(b, Undefined) : b \in SizeBodies}
              ELSE IF c.op \in Getters \cup {"getNamespace"}
              THEN {Success(Str(<<"text">>), Undefined)}
              ELSE IF c.op \in Readers
              THEN {Success(b, Undefined) : b \in {Undefined} \cup Results(c.op)}
              ELSE {Success(Undefined, Undefined)})

\* What a server does with a request: its reply and its state afterwards.
Answer(reply, newStore, newTxns) == [reply |-> reply, store |-> newStore, txns |-> newTxns]

\* The response to the request of call c arrives and c resumes with Continuation.
Answered(c, answer, Continuation) ==
    /\ Continuation
    /\ pc' = Script(pc, last', c)
    /\ store' = answer.store
    /\ txns' = answer.txns
    /\ UNCHANGED given

Arbitrary(reply) == Answer(reply, store, txns)

AnyReply ==
    \/ \E c \in InFlight : \E reply \in Replies(c) :
          Answered(c, Arbitrary(reply), beginTransactionResume(c, reply))
    \/ \E c \in InFlight : \E reply \in Replies(c) :
          Answered(c, Arbitrary(reply), commitResume(c, reply))
    \/ \E c \in InFlight : \E reply \in Replies(c) :
          Answered(c, Arbitrary(reply), rollbackResume(c, reply))
    \/ \E c \in InFlight : \E reply \in Replies(c) :
          Answered(c, Arbitrary(reply), sizeResume(c, reply))
    \/ \E c \in InFlight : \E reply \in Replies(c) :
          Answered(c, Arbitrary(reply), returnResume(c, reply))

Init ==
    /\ repositoryId \in RepositoryIds
    /\ handles = <<>>
    /\ inflight = EmptyBag
    /\ last = Thrown("none", 0, "none")
    /\ store = [r \in RepositoryIds |-> {}]
    /\ txns = <<>>
    /\ pc = Free
    /\ given = NoArguments

\* Callers that call at any time, their calls overlapping, against a server
\* that may answer anything.
Next == Call \/ AnyReply

Spec == Init /\ [][Next]_vars

\* ------------------------------------------ a server that stages changes
\* The server of the transaction tests: a transaction's additions are staged
\* and reach the repository when it is committed.  SPARQL text is not
\* interpreted: QUERY, UPDATE, DELETE, GET and PING succeed and change nothing.

RECURSIVE ToDecimal(_)
ToDecimal(n) ==
    IF n < 10 THEN <<Digits[n + 1]>>
    ELSE ToDecimal(n \div 10) \o <<Digits[(n % 10) + 1]>>

StatementsIn(body) == {body.s[i] : i \in DOMAIN body.s} \cap Statements

\* The request's path below the server's base URL.
ServerPath(req) ==
    LET p == req.url.path
        n == Len(baseUrl)
    IN  IF Len(p) >= n /\ SubSeq(p, 1, n) = baseUrl THEN SubSeq(p, n + 1, Len(p)) ELSE <<>>

ServerAction(req) ==
    IF "action" \in DOMAIN req.url.search THEN req.url.search["action"] ELSE <<>>

ServerRepository(r) == <<"/", "repositories", "/", r>>

ServerTransactionPath(k) ==
    ServerRepository(txns[k].repo) \o <<"/", "transactions", "/">> \o TxnId(k)

Ok == Success(Undefined, Undefined)

NotFound == Failure("RDF4JError")

ServerCreate(r) ==
    IF Len(txns) >= 9 THEN Arbitrary(NotFound)
    ELSE Answer(Success(Undefined,
                        Str(baseUrl \o ServerRepository(r) \o <<"/", "transactions", "/">>
                                \o TxnId(Len(txns) + 1))),
                store,
                Append(txns, [repo |-> r, staged |-> {}, open |-> TRUE]))

ServerTransaction(k, req) ==
    LET t == txns[k]
        action == ServerAction(req)
    IN  IF ~t.open THEN Arbitrary(NotFound)
        ELSE IF req.method = "DELETE"
        THEN Answer(Ok, store, [txns EXCEPT ![k].open = FALSE])
        ELSE IF req.method = "PUT" /\ action = <<"COMMIT">>
        THEN Answer(Ok, [store EXCEPT ![t.repo] = @ \cup t.staged],
                    [txns EXCEPT ![k].open = FALSE])
        ELSE IF req.method = "PUT" /\ action = <<"ADD">>
        THEN Answer(Ok, store, [txns EXCEPT ![k].staged = @ \cup StatementsIn(req.body)])
        ELSE IF req.method = "POST" /\ action = <<"SIZE">>
        THEN Arbitrary(Success(Str(ToDecimal(Cardinality(store[t.repo] \cup t.staged))),
                               Undefined))
        ELSE IF req.method = "POST"
                /\ action \in {<<"QUERY">>, <<"UPDATE">>, <<"DELETE">>, <<"GET">>, <<"PING">>}
        THEN Arbitrary(Ok)
        ELSE Arbitrary(NotFound)

Server(req) ==
    LET path == ServerPath(req)
    IN  IF req.method = "POST"
           /\ \E r \in RepositoryIds : path = ServerRepository(r) \o <<"/", "transactions">>
        THEN ServerCreate(CHOOSE r \in RepositoryIds :
                              path = ServerRepository(r) \o <<"/", "transactions">>)
        ELSE IF \E k \in DOMAIN txns : path = ServerTransactionPath(k)
        THEN ServerTransaction(CHOOSE k \in DOMAIN txns : path = ServerTransactionPath(k), req)
        ELSE IF req.method = "GET"
                /\ \E r \in RepositoryIds : path = ServerRepository(r) \o <<"/", "size">>
        THEN Arbitrary(Success(Str(ToDecimal(Cardinality(
                 store[CHOOSE r \in RepositoryIds :
                           path = ServerRepository(r) \o <<"/", "size">>]))), Undefined))
        ELSE Arbitrary(NotFound)

ServerReply ==
    \/ \E c \in InFlight :
          Answered(c, Server(c.req), beginTransactionResume(c, Server(c.req).reply))
    \/ \E c \in InFlight :
          Answered(c, Server(c.req), commitResume(c, Server(c.req).reply))
    \/ \E c \in InFlight :
          Answered(c, Server(c.req), rollbackResume(c, Server(c.req).reply))
    \/ \E c \in InFlight :
          Answered(c, Server(c.req), sizeResume(c, Server(c.req).reply))
    \/ \E c \in InFlight :
          Answered(c, Server(c.req), returnResume(c, Server(c.req).reply))

TestInit ==
    /\ repositoryId \in RepositoryIds
    /\ handles = <<>>
    /\ inflight = EmptyBag
    /\ last = Thrown("none", 0, "none")
    /\ store = [r \in RepositoryIds |-> {}]
    /\ txns = <<>>
    /\ pc = At("start", 0)
    /\ given = NoArguments

\* The transaction tests' caller, which awaits every call, against the
\* staging server.
TestNext == Call \/ ServerReply

TestSpec == TestInit /\ [][TestNext]_vars

\* ---------------------------------------------------- a caller that retries

RetryInit ==
    /\ repositoryId \in RepositoryIds
    /\ handles = <<>>
    /\ inflight = EmptyBag
    /\ last = Thrown("none", 0, "none")
    /\ store = [r \in RepositoryIds |-> {}]
    /\ txns = <<>>
    /\ pc = At("watch", 0)
    /\ given = NoArguments

\* A caller that awaits every call, against a server that may answer anything.
RetrySpec == RetryInit /\ [][Next]_vars

\* ------------------------------------- callers of the stateless operations

\* The longest list of graph URIs a caller passes.
MaxGraphs == 3

\* The i-th graph URI.
GraphUri(i) == <<"urn:g" \o ToString(i)>>

\* Values of a string-or-list URI option: absent, "", one URI, a list of up to
\* MaxGraphs URIs.
GraphOptions ==
    {Scalar(Undefined), Scalar(Str(<<>>)), Scalar(Str(GraphUri(1)))}
        \cup {List([i \in 1..n |-> GraphUri(i)]) : n \in 0..MaxGraphs}

\* Values of the bindings option: absent, no entry, one entry, two entries,
\* with and without the "$" in the name, and variables that are named as
\* parameters of the query are.
Bindings ==
    {Undefined} \cup
    {Object(entries) : entries \in
        {<<>>,
         <<[name |-> <<"x">>, value |-> <<"1">>]>>,
         <<[name |-> <<"$", "x">>, value |-> <<"1">>]>>,
         <<[name |-> <<"x">>, value |-> <<"1">>], [name |-> <<"y">>, value |-> <<"2">>]>>,
         <<[name |-> <<"x">>, value |-> <<"1">>], [name |-> <<"$", "x">>, value |-> <<"2">>]>>,
         <<[name |-> <<"query">>, value |-> <<"q">>]>>,
         <<[name |-> <<"limit">>, value |-> <<"99">>],
           [name |-> <<"default-graph-uri">>, value |-> <<"urn:b">>]>>}}

\* The other fields of QueryOptions: all absent, all falsy, all set.
Flags ==
    {NoQueryOptions,
     [NoQueryOptions EXCEPT !.infer = Bool(FALSE), !.distinct = Bool(FALSE),
                            !.limit = Number(0), !.offset = Number(0),
                            !.timeout = Number(0)],
     [NoQueryOptions EXCEPT !.infer = Bool(TRUE), !.distinct = Bool(TRUE),
                            !.limit = Number(10), !.offset = Number(5),
                            !.timeout = Number(1000), !.accept = Str(TEXT)]}

QueryOptions ==
    {[NoQueryOptions EXCEPT !.defaultGraphUri = d, !.namedGraphUri = n] :
        d \in GraphOptions, n \in GraphOptions}
        \cup {[f EXCEPT !.bindings = b] : f \in Flags, b \in Bindings}

UpdateOptions ==
    {[NoUpdateOptions EXCEPT !.usingGraphUri = u, !.usingNamedGraphUri = n] :
        u \in GraphOptions, n \in GraphOptions}
        \cup {[NoUpdateOptions EXCEPT !.removeGraphUri = Str(GraphUri(1)),
                                      !.insertGraphUri = Str(GraphUri(2)),
                                      !.usingGraphUri = Scalar(Str(GraphUri(3))),
                                      !.timeout = Number(1000)]}

\* Values of a filter's context: absent, one context, a list of none, one, two.
Contexts ==
    {Scalar(Undefined), Scalar(Str(<<"<c1>">>)), List(<<>>), List(<<<<"<c1>">>>>),
     List(<<<<"<c2>">>, <<"<c1>">>>>)}

StatementOptions ==
    {[f EXCEPT !.context = c] :
        c \in Contexts,
        f \in {NoStatementOptions,
               [NoStatementOptions EXCEPT !.subj = Str(<<"<s>">>), !.infer = Bool(TRUE)],
               [NoStatementOptions EXCEPT !.subj = Str(<<"<s>">>), !.pred = Str(<<"<p>">>),
                                          !.obj = Str(<<"<o>">>), !.infer = Bool(FALSE),
                                          !.accept = Str(TEXT)]}}

\* The arguments a caller passes to each of the other operations.
Arguments(op) ==
    LET graph == Str(GraphUri(1))
        name == <<"a", "/", "b">>
        data == Str(<<"s1">>)
        accepts == {Undefined, Str(TEXT)}
        contexts == {Undefined, Str(<<"<c1>">>)}
    IN  CASE op \in {"getProtocol", "listRepositories", "getConfig", "contexts",
                     "namespaces", "clearNamespaces", "deleteDefault", "update",
                     "add", "commit", "rollback", "ping"} -> {<<>>}
          [] op = "createRepository" ->
                {<<"repo2", t, Str(<<"default config">>)>> : t \in {Undefined, data}}
          [] op \in {"deleteRepository", "repositoryExists"} ->
                {<<r>> : r \in RepositoryIds}
          [] op = "describe" -> {<<<<"urn:r">>, a>> : a \in accepts}
          [] op = "repositoryUpdate" -> {<<Sparql, t>> : t \in {Undefined, Number(0)}}
          [] op \in {"repositoryAdd", "replace"} ->
                {<<data, [contentType |-> Str(TURTLE), context |-> c, baseURI |-> c]>> :
                    c \in contexts}
          [] op \in {"getNamespace", "deleteNamespace"} -> {<<<<"ex">>>>}
          [] op = "setNamespace" -> {<<<<"ex">>, Str(<<"urn:ns">>)>>}
          [] op \in {"clear", "repositorySize", "size"} -> {<<c>> : c \in contexts}
          [] op = "beginTransaction" -> {<<l>> : l \in IsolationLevels}
          [] op = "getDefault" -> {<<a>> : a \in accepts}
          [] op \in {"putDefault", "postDefault"} -> {<<data, Str(TURTLE)>>}
          [] op = "graphGet" -> {<<graph, a>> : a \in accepts}
          [] op \in {"graphPut", "graphPost"} -> {<<graph, data, Str(TURTLE)>>}
          [] op \in {"graphDelete", "exists"} -> {<<graph>>}
          [] op = "getDirect" -> {<<name, a>> : a \in accepts}
          [] op \in {"putDirect", "postDirect"} -> {<<name, data, Str(TURTLE)>>}
          [] op = "deleteDirect" -> {<<name>>}

\* The operations of the four clients but those a query, an update with
\* graphs or a statement filter is given to.
Operations ==
    {"getProtocol", "listRepositories", "createRepository", "deleteRepository",
     "repositoryExists", "getConfig", "describe", "repositoryUpdate",
     "repositoryAdd", "replace", "repositorySize", "contexts", "namespaces",
     "getNamespace", "setNamespace", "deleteNamespace", "clearNamespaces", "clear",
     "beginTransaction", "update", "add", "size", "commit", "rollback",
     "ping", "getDefault", "putDefault", "postDefault", "deleteDefault", "graphGet",
     "graphPut", "graphPost", "graphDelete", "getDirect", "putDirect", "postDirect",
     "deleteDirect", "exists"}

\* What a caller holds: a query and its options, an update and its graphs, a
\* statement filter, or the arguments of one other operation.
Given ==
    {[kind |-> "query", sparql |-> s, options |-> o] :
        s \in {Sparql}, o \in QueryOptions}
        \cup {[kind |-> "query", sparql |-> Str(<<>>), options |-> o] : o \in Flags}
        \cup {[kind |-> "update", sparql |-> Sparql, options |-> o] : o \in UpdateOptions}
        \cup {[kind |-> "filter", options |-> o] : o \in StatementOptions}
        \cup UNION {{[kind |-> "call", op |-> op, args |-> a] : a \in Arguments(op)} :
                        op \in Operations}

\* The same options, the entries of bindings supplied in any order.
Reordered(options) ==
    IF Falsy(options.bindings) THEN {options}
    ELSE LET entries == options.bindings.entries
         IN  {[options EXCEPT !.bindings = Object([i \in DOMAIN entries |-> entries[p[i]]])] :
                 p \in Permutations(DOMAIN entries)}

\* The argument lists the caller may pass to the operations its arguments
\* are of kind for: the queries, updateWithGraphs, the operations on statements.
Supplied(kind) ==
    IF given.kind # kind THEN {}
    ELSE IF kind = "query" THEN {<<given.sparql, o>> : o \in Reordered(given.options)}
    ELSE IF kind = "update" THEN {<<given.sparql, given.options>>}
    ELSE {<<given.options>>}

\* The argument list the caller may pass to operation op.
Args(op) == IF given.kind = "call" /\ given.op = op THEN {given.args} ELSE {}

ClientCall ==
    \/ \E args \in Args("getProtocol") : Caller(RDF4JClient("getProtocol", args))
    \/ \E args \in Args("listRepositories") : Caller(RDF4JClient("listRepositories", args))
    \/ \E args \in Args("createRepository") : Caller(RDF4JClient("createRepository", args))
    \/ \E args \in Args("deleteRepository") : Caller(RDF4JClient("deleteRepository", args))
    \/ \E args \in Args("repositoryExists") : Caller(RDF4JClient("repositoryExists", args))
    \/ \E args \in Args("getConfig") : Caller(repository("getConfig", args))
    \/ \E args \in Supplied("query") : Caller(repository("repositoryQuery", args))
    \/ \E args \in Supplied("query") : Caller(repository("queryPost", args))
    \/ \E args \in Supplied("query") : Caller(repository("construct", args))
    \/ \E args \in Supplied("query") : Caller(repository("ask", args))
    \/ \E args \in Args("describe") : Caller(repository("describe", args))
    \/ \E args \in Args("repositoryUpdate") : Caller(repository("repositoryUpdate", args))
    \/ \E args \in Supplied("update") : Caller(repository("updateWithGraphs", args))
    \/ \E args \in Args("repositoryAdd") : Caller(repository("repositoryAdd", args))
    \/ \E args \in Args("replace") : Caller(repository("replace", args))
    \/ \E args \in Supplied("filter") : Caller(repository("repositoryGetStatements", args))
    \/ \E args \in Supplied("filter") : Caller(repository("repositoryDelete", args))
    \/ \E args \in Supplied("filter") : Caller(repository("export", args))
    \/ \E args \in Args("repositorySize") : Caller(repositorySize(args[1]))
    \/ \E args \in Args("contexts") : Caller(repository("contexts", args))
    \/ \E args \in Args("namespaces") : Caller(repository("namespaces", args))
    \/ \E args \in Args("getNamespace") : Caller(repository("getNamespace", args))
    \/ \E args \in Args("setNamespace") : Caller(repository("setNamespace", args))
    \/ \E args \in Args("deleteNamespace") : Caller(repository("deleteNamespace", args))
    \/ \E args \in Args("clearNamespaces") : Caller(repository("clearNamespaces", args))
    \/ \E args \in Args("clear") : Caller(repository("clear", args))
    \/ \E args \in Args("beginTransaction") : Caller(beginTransaction(args[1]))
    \/ \E args \in Supplied("query"), h \in Handles : Caller(query(h, args[1], args[2]))
    \/ \E args \in Args("update"), h \in Handles : Caller(update(h, Sparql))
    \/ \E args \in Args("add"), h \in Handles, data \in DataDocs : Caller(add(h, data))
    \/ \E args \in Supplied("filter"), h \in Handles : Caller(delete(h, args[1]))
    \/ \E args \in Supplied("filter"), h \in Handles : Caller(getStatements(h, args[1]))
    \/ \E args \in Args("size"), h \in Handles : Caller(size(h, args[1]))
    \/ \E args \in Args("commit"), h \in Handles : Caller(commit(h))
    \/ \E args \in Args("rollback"), h \in Handles : Caller(rollback(h))
    \/ \E args \in Args("ping"), h \in Handles : Caller(ping(h))
    \/ \E args \in Args("getDefault") : Caller(graphStore("getDefault", args))
    \/ \E args \in Args("putDefault") : Caller(graphStore("putDefault", args))
    \/ \E args \in Args("postDefault") : Caller(graphStore("postDefault", args))
    \/ \E args \in Args("deleteDefault") : Caller(graphStore("deleteDefault", args))
    \/ \E args \in Args("graphGet") : Caller(graphStore("graphGet", args))
    \/ \E args \in Args("graphPut") : Caller(graphStore("graphPut", args))
    \/ \E args \in Args("graphPost") : Caller(graphStore("graphPost", args))
    \/ \E args \in Args("graphDelete") : Caller(graphStore("graphDelete", args))
    \/ \E args \in Args("getDirect") : Caller(graphStore("getDirect", args))
    \/ \E args \in Args("putDirect") : Caller(graphStore("putDirect", args))
    \/ \E args \in Args("postDirect") : Caller(graphStore("postDirect", args))
    \/ \E args \in Args("deleteDirect") : Caller(graphStore("deleteDirect", args))
    \/ \E args \in Args("exists") : Caller(graphStore("exists", args))

\* The replies to the requests of the stateless operations.
ClientReply ==
    \/ \E c \in InFlight : \E reply \in Replies(c) :
          Answered(c, Arbitrary(reply), existsResume(c, reply))
    \/ \E c \in InFlight : \E reply \in Replies(c) :
          Answered(c, Arbitrary(reply), getNamespaceResume(c, reply))
    \/ \E c \in InFlight : \E reply \in Replies(c) :
          Answered(c, Arbitrary(reply), awaitResume(c, reply))

\* A client of one repository with one transaction open, and what its caller
\* holds.
ClientInit ==
    /\ repositoryId = "repo1"
    /\ handles = <<TransactionClient(repositoryId, TxnId(1))>>
    /\ inflight = EmptyBag
    /\ last = Thrown("none", 0, "none")
    /\ store = [r \in RepositoryIds |-> {}]
    /\ txns = <<>>
    /\ pc = Free
    /\ given \in Given

ClientNext == ClientCall \/ ClientReply \/ AnyReply

\* Callers that make the calls their arguments are for, at any time and
\* overlapping, against a server that may answer anything.
ClientSpec == ClientInit /\ [][ClientNext]_vars

\* ------------------------------------------------------------ properties

\* The calls whose request a step put on the wire, and those it settled.
Sent == BagToSet(inflight' (-) inflight)

Done == BagToSet(inflight (-) inflight')

Requests(bag) == BagCardinality(bag)

DataOps == {"query", "update", "add", "delete", "getStatements", "size", "ping"}

GuardedOps == DataOps \cup CloseOps

\* C1: a call of query, update, add, delete, getStatements, size, ping, commit
\* or rollback on a handle whose flag is false (its commit or rollback has
\* succeeded) is rejected with 'Transaction is no longer active' and puts no
\* request on the wire.
C1_ClosedHandleRejectsEveryCall ==
    [][\A h \in Handles :
          (~handles[h].active /\ last'.kind = "call" /\ last'.h = h) =>
              /\ last'.op \in GuardedOps
              /\ last'.outcome = "rejected"
              /\ last'.error = TransactionNotActive
              /\ last'.sent = <<>>
              /\ inflight' = inflight]_vars

\* A second commit was called after the handle closed, and threw.
C1_Witness ==
    /\ last.kind = "call"
    /\ last.op = "commit"
    /\ last.h \in Handles
    /\ ~handles[last.h].active
    /\ last.error = TransactionNotActive

\* C2: a handle is constructed with its flag true; the flag goes from true to
\* false only in the step that settles a commit or rollback of that handle
\* whose request succeeded; a false flag stays false and no handle disappears.
C2_FlagFallsOnceOnSuccessfulClose ==
    [][/\ \A h \in DOMAIN handles' \ DOMAIN handles : handles'[h].active
       /\ \A h \in Handles :
             /\ h \in DOMAIN handles'
             /\ ~handles[h].active => ~handles'[h].active
             /\ (handles[h].active /\ ~handles'[h].active) =>
                   /\ last'.kind = "settle"
                   /\ last'.op \in CloseOps
                   /\ last'.h = h
                   /\ last'.reply.ok
                   /\ last'.outcome = "resolved"
                   /\ \E c \in Done : c.op = last'.op /\ c.h = h]_vars

\* A rollback succeeded and its handle is closed.
C2_Witness ==
    /\ last.kind = "settle"
    /\ last.op = "rollback"
    /\ last.outcome = "resolved"
    /\ ~handles[last.h].active

\* C3: for a caller that awaits its calls: when the request of a commit or
\* rollback fails, the call is rejected with the request's error and the handle
\* stays active, also through the calls that follow; the next commit or
\* rollback on that handle is not refused and sends the request of a commit or
\* rollback of that handle; the handle is closed when that request succeeds.
C3_FailedCloseCanBeRetried ==
    /\ pc.at = "failed" =>
          /\ last.kind = "settle" /\ last.op \in CloseOps /\ last.h = pc.h
          /\ last.outcome = "rejected"
          /\ last.error \in TransportErrors
          /\ last.error = last.reply.error
    /\ pc.at \in {"failed", "later", "retrying"} => handles[pc.h].active
    /\ pc.at # "refused"
    /\ pc.at = "retrying" =>
          /\ last.kind = "call" /\ last.op \in CloseOps /\ last.h = pc.h
          /\ last.sent = <<IF last.op = "commit" THEN commitRequest(handles[pc.h])
                           ELSE rollbackRequest(handles[pc.h])>>
          /\ \E c \in InFlight : inflight = SetToBag({c}) /\ <<c.req>> = last.sent
    /\ pc.at = "closed" =>
          /\ last.kind = "settle" /\ last.op \in CloseOps /\ last.h = pc.h
          /\ last.outcome = "resolved"
          /\ ~handles[pc.h].active

\* A commit or rollback failed, it was called again, and the handle closed.
C3_Witness == pc.at = "closed" /\ ~handles[pc.h].active

\* C4: every request a handle puts on the wire is sent in a step that starts
\* with the handle's flag true, whatever calls of the handle are in flight.
C4_RequestsOnlyFromActiveHandle ==
    [][\A c \in Sent : c.h # 0 => c.h \in Handles /\ handles[c.h].active]_vars

\* A data operation sent its request while a commit or rollback of the same
\* handle was awaiting its response.
C4_Witness ==
    /\ last.kind = "call"
    /\ last.outcome = "pending"
    /\ last.op \in DataOps
    /\ \E c \in InFlight : c.op \in CloseOps /\ c.h = last.h

\* C5: no step of query, update, add, delete, getStatements, size or ping (the
\* call, or its settling after success, an error status, a network failure or
\* a timeout) changes any handle; ping on an active handle passes the check.
C5_DataOperationsLeaveFlagAlone ==
    [][/\ last'.op \in DataOps => handles' = handles
       /\ \A c \in Sent \cup Done : c.op \in DataOps => handles' = handles
       /\ \A h \in Handles :
             (handles[h].active /\ last'.kind = "call" /\ last'.op = "ping" /\ last'.h = h) =>
                 /\ last'.outcome = "pending"
                 /\ handles'[h].active]_vars

\* A ping timed out and its handle is still active.
C5_Witness ==
    /\ last.kind = "settle"
    /\ last.op = "ping"
    /\ last.error = "AbortError"
    /\ handles[last.h].active

\* The text after the last slash of a text: its longest suffix without a slash.
Identifier(text) ==
    CHOOSE id \in {SubSeq(text, i, Len(text)) : i \in 1..(Len(text) + 1)} :
        /\ \A i \in DOMAIN id : id[i] # "/"
        /\ Len(id) = Len(text) \/ text[Len(text) - Len(id)] = "/"

\* The Location of a reply names a transaction.
NamesTransaction(reply) ==
    /\ reply.ok
    /\ reply.location # Undefined
    /\ Identifier(reply.location.s) # <<>>

\* C6: beginTransaction sends one POST to {baseUrl}/repositories/{id}/transactions
\* whose only parameter is isolation-level, present exactly when the argument is
\* given; when the request succeeds and the Location names a transaction, the
\* call resolves and one handle is constructed: active, with that identifier;
\* when the request fails, the Location is absent or its identifier is empty,
\* the call is rejected and no handle is constructed.
C6_BeginTransaction ==
    [][/\ (last'.kind = "call" /\ last'.op = "beginTransaction") =>
             /\ Requests(inflight') = Requests(inflight) + 1
             /\ \E c \in Sent :
                   /\ c.op = "beginTransaction"
                   /\ last'.sent = <<c.req>>
                   /\ c.req.method = "POST"
                   /\ c.req.url.path =
                         baseUrl \o <<"/", "repositories", "/", repositoryId, "/", "transactions">>
                   /\ DOMAIN c.req.url.search =
                         IF c.args[1] = Undefined THEN {} ELSE {"isolation-level"}
                   /\ \A k \in DOMAIN c.req.url.search : c.req.url.search[k] = c.args[1].s
       /\ (last'.kind = "settle" /\ last'.op = "beginTransaction") =>
             /\ Requests(inflight') = Requests(inflight) - 1
             /\ IF NamesTransaction(last'.reply)
                THEN /\ last'.outcome = "resolved"
                     /\ handles' = Append(handles,
                                          [repositoryId |-> repositoryId,
                                           transactionId |-> Identifier(last'.reply.location.s),
                                           active |-> TRUE])
                ELSE /\ last'.outcome = "rejected"
                     /\ last'.error = IF last'.reply.ok THEN MissingTransactionId
                                      ELSE last'.reply.error
                     /\ handles' = handles
       /\ Len(handles') > Len(handles) =>
             last'.kind = "settle" /\ last'.op = "beginTransaction"]_vars

\* beginTransaction("SNAPSHOT") resolved with a handle.
C6_Witness ==
    /\ last.kind = "settle"
    /\ last.op = "beginTransaction"
    /\ last.outcome = "resolved"
    /\ handles # <<>>
    /\ handles[Len(handles)].active
    /\ handles[Len(handles)].transactionId = Identifier(last.reply.location.s)

\* The URL of the transaction a handle was constructed for.
ResourcePath(txn) ==
    baseUrl \o <<"/", "repositories", "/", txn.repositoryId, "/", "transactions", "/">>
        \o txn.transactionId

\* The action parameter of a request; <<>>: it carries none.
ActionOf(req) ==
    IF "action" \in DOMAIN req.url.search THEN req.url.search["action"] ELSE <<>>

\* C7, as stated: the request of a commit in flight is a PUT to the
\* transaction's path with action COMMIT, that of a rollback a DELETE to the
\* same path with action ROLLBACK.
C7_RollbackCarriesAction ==
    \A c \in InFlight :
        /\ c.op = "commit" =>
              /\ c.req.method = "PUT"
              /\ c.req.url.path = ResourcePath(handles[c.h])
              /\ ActionOf(c.req) = <<"COMMIT">>
        /\ c.op = "rollback" =>
              /\ c.req.method = "DELETE"
              /\ c.req.url.path = ResourcePath(handles[c.h])
              /\ ActionOf(c.req) = <<"ROLLBACK">>

\* C7, amended: on an active handle commit sends exactly one request, a PUT to
\* the transaction's path whose only parameter is action=COMMIT, and rollback
\* exactly one request, a DELETE to the same path with no parameter at all;
\* the step that settles either sends nothing.
C7_CommitPutRollbackDelete ==
    [][\A h \in Handles :
          /\ (handles[h].active /\ last'.kind = "call" /\ last'.op \in CloseOps /\ last'.h = h) =>
                /\ Requests(inflight') = Requests(inflight) + 1
                /\ \E c \in Sent :
                      /\ c.op = last'.op /\ c.h = h
                      /\ last'.sent = <<c.req>>
                      /\ c.req.url.path = ResourcePath(handles[h])
                      /\ c.req.body = Undefined
                      /\ IF c.op = "commit"
                         THEN /\ c.req.method = "PUT"
                              /\ DOMAIN c.req.url.search = {"action"}
                              /\ ActionOf(c.req) = <<"COMMIT">>
                         ELSE /\ c.req.method = "DELETE"
                              /\ DOMAIN c.req.url.search = {}
          /\ (last'.kind = "settle" /\ last'.op \in CloseOps /\ last'.h = h) =>
                /\ Sent = {}
                /\ Requests(inflight') = Requests(inflight) - 1]_vars

\* A rollback is awaiting the response to its DELETE, which carries no parameter.
C7_Witness ==
    /\ last.kind = "call"
    /\ last.op = "rollback"
    /\ last.outcome = "pending"
    /\ \E c \in InFlight :
          /\ c.op = "rollback" /\ c.h = last.h
          /\ c.req.method = "DELETE"
          /\ DOMAIN c.req.url.search = {}

\* The method and the action the protocol gives each data operation.
Wire(op) ==
    CASE op = "query" -> <<"POST", "QUERY">>
      [] op = "update" -> <<"POST", "UPDATE">>
      [] op = "add" -> <<"PUT", "ADD">>
      [] op = "delete" -> <<"POST", "DELETE">>
      [] op = "getStatements" -> <<"POST", "GET">>
      [] op = "size" -> <<"POST", "SIZE">>
      [] op = "ping" -> <<"POST", "PING">>

\* C8: on an active handle each call of query, update, add, delete,
\* getStatements, size or ping sends exactly one request, to
\* {baseUrl}/repositories/{repositoryId}/transactions/{transactionId} of its
\* handle, with its own method and action; settling it sends nothing; a
\* handle's two identifiers never change; and two requests of handles in
\* flight with the same method and action are of the same operation.
C8_DataOperationOnTheWire ==
    [][/\ \A h \in Handles :
             /\ handles'[h].repositoryId = handles[h].repositoryId
             /\ handles'[h].transactionId = handles[h].transactionId
             /\ (handles[h].active /\ last'.kind = "call" /\ last'.op \in DataOps /\ last'.h = h) =>
                   /\ Requests(inflight') = Requests(inflight) + 1
                   /\ \E c \in Sent :
                         /\ c.op = last'.op /\ c.h = h
                         /\ last'.sent = <<c.req>>
                         /\ c.req.url.path = ResourcePath(handles[h])
                         /\ <<c.req.method, ActionOf(c.req)>> = <<Wire(c.op)[1], <<Wire(c.op)[2]>> >>
             /\ (last'.kind = "settle" /\ last'.op \in DataOps /\ last'.h = h) =>
                   /\ Sent = {}
                   /\ Requests(inflight') = Requests(inflight) - 1
       /\ \A c, d \in BagToSet(inflight') :
             (/\ c.h # 0 /\ d.h # 0
              /\ c.req.method = d.req.method
              /\ ActionOf(c.req) = ActionOf(d.req)) => c.op = d.op]_vars

\* getStatements and ping of one handle are both awaiting their responses.
C8_Witness ==
    /\ last.kind = "call"
    /\ last.op = "getStatements"
    /\ last.outcome = "pending"
    /\ \E c \in InFlight : c.op = "ping" /\ c.h = last.h

\* C9: against the staging server and from an empty repository, no call of the
\* transaction tests is rejected; size() on the handle after adding one
\* statement returns 1; the repository's size() returns 1 after commit and 0
\* after rollback.
C9_CommitPersistsRollbackDiscards ==
    /\ pc.at # "broken"
    /\ (pc.at = "sized" /\ last.kind = "settle") => last.op = "size" /\ last.ret = Num(1)
    /\ pc.at = "committed" => ~handles[1].active /\ store[repositoryId] # {}
    /\ pc.at = "rolledBack" => ~handles[1].active /\ store[repositoryId] = {}
    /\ pc.at = "committedSize" => last.op = "repositorySize" /\ last.ret = Num(1)
    /\ pc.at = "rolledBackSize" => last.op = "repositorySize" /\ last.ret = Num(0)

\* The test of commit ran to its end: the repository's size came back as 1.
C9_Witness ==
    /\ pc.at = "committedSize"
    /\ last.kind = "settle"
    /\ last.ret = Num(1)

\* C10: a step changes a handle only when it settles a call of that handle, so
\* no call of one handle changes another; and a request a handle sends goes to
\* the path of its own transaction, which is the path of no handle whose
\* transaction is another.
C10_HandlesAreIndependent ==
    [][/\ \A h \in Handles :
             handles'[h] # handles[h] => last'.kind = "settle" /\ last'.h = h
       /\ \A c \in Sent :
             c.h # 0 =>
                /\ Identifier(c.req.url.path) = handles[c.h].transactionId
                /\ \A g \in Handles :
                      handles[g].transactionId # handles[c.h].transactionId =>
                          c.req.url.path # ResourcePath(handles[g])]_vars

\* A commit or rollback closed one handle while the other, for another
\* transaction, is active with a request in flight.
C10_Witness ==
    /\ Len(handles) = 2
    /\ handles[1].transactionId # handles[2].transactionId
    /\ last.kind = "settle"
    /\ last.op \in CloseOps
    /\ last.outcome = "resolved"
    /\ ~handles[last.h].active
    /\ handles[3 - last.h].active
    /\ \E c \in InFlight : c.h = 3 - last.h

\* ------------------------------------------------ the parameter encoders

\* The search parameters of a call's request.
Search(c) == c.req.url.search

QueryOps == {"repositoryQuery", "queryPost", "construct", "ask"}

\* The list-valued URI options of an operation, each with its bare key.
UriOptions(op) ==
    IF op \in QueryOps
    THEN {[field |-> "defaultGraphUri", key |-> "default-graph-uri"],
          [field |-> "namedGraphUri", key |-> "named-graph-uri"]}
    ELSE IF op = "updateWithGraphs"
    THEN {[field |-> "usingGraphUri", key |-> "using-graph-uri"],
          [field |-> "usingNamedGraphUri", key |-> "using-named-graph-uri"]}
    ELSE {}

\* The key of element i of a list: the bare key, the key with i appended.
IndexedKey(key, i) == IF i = 0 THEN key ELSE key \o ToString(i)

\* Every key a list of the lengths considered could be sent under.
Family(key) == {key} \cup {key \o ToString(i) : i \in 0..(MaxGraphs + 1)}

IsUri(v) == v.t = "string" /\ v.s # <<>>

\* C11: a list-valued URI option (defaultGraphUri, namedGraphUri,
\* usingGraphUri, usingNamedGraphUri) holding n URIs is sent as exactly n
\* parameters, element 0 under the bare key and element i >= 1 under the key
\* with i appended, each with its own URI; a single URI is sent as the list
\* of that one URI.
C11_UriListsExpandToIndexedKeys ==
    \A c \in InFlight : \A o \in UriOptions(c.op) :
        LET option == c.args[2][o.field]
            uris == IF option.list THEN option.items ELSE <<option.value.s>>
        IN  (option.list \/ IsUri(option.value)) =>
                /\ DOMAIN Search(c) \cap Family(o.key)
                       = {IndexedKey(o.key, i) : i \in 0..(Len(uris) - 1)}
                /\ \A i \in 0..(Len(uris) - 1) :
                       Search(c)[IndexedKey(o.key, i)] = uris[i + 1]

\* A query is in flight with one default graph given as a scalar and
\* MaxGraphs named graphs given as a list, the last of them under its own key.
C11_Witness ==
    \E c \in InFlight :
        /\ c.op = "queryPost"
        /\ c.args[2].defaultGraphUri = Scalar(Str(GraphUri(1)))
        /\ Len(c.args[2].namedGraphUri.items) = MaxGraphs
        /\ Search(c)["default-graph-uri"] = GraphUri(1)
        /\ Search(c)[IndexedKey("named-graph-uri", MaxGraphs - 1)] = GraphUri(MaxGraphs)

\* The key specified for the binding of a name: the name with "$" before
\* it, the name itself when it starts with "$".
Prefixed(name) == Key(IF Head(name) = "$" THEN name ELSE <<"$">> \o name)

\* The entries of the bindings a query was called with.
Entries(c) ==
    IF c.op \in QueryOps /\ ~Falsy(c.args[2].bindings)
    THEN c.args[2].bindings.entries ELSE <<>>

\* C12: each entry (name, value) of the bindings mapping is sent as one
\* parameter, its key the name prefixed with "$" unless the name starts with
\* "$" already, its value the entry's value.
C12_EachBindingIsOneParameter ==
    \A c \in InFlight : \A i \in DOMAIN Entries(c) :
        /\ Prefixed(Entries(c)[i].name) \in DOMAIN Search(c)
        /\ Search(c)[Prefixed(Entries(c)[i].name)] = Entries(c)[i].value

\* Every key a binding of the names considered could be sent under.
BindingKeys == {Key(<<"$", n>>) : n \in {"x", "y", "query", "limit", "default-graph-uri"}}

\* The optional fields a call was given, each with the keys it is sent under.
Fields(c) ==
    LET field(v, keys) == [value |-> v, keys |-> keys]
        of(options, names) == {field(options[n], {n}) : n \in names}
    IN  IF c.op \in QueryOps
        THEN of(c.args[2], {"infer", "distinct", "limit", "offset", "timeout"})
                 \cup {field(c.args[2][o.field], Family(o.key)) : o \in UriOptions(c.op)}
                 \cup {field(c.args[2].bindings, BindingKeys)}
        ELSE IF c.op = "updateWithGraphs"
        THEN {field(c.args[2].removeGraphUri, {"remove-graph-uri"}),
              field(c.args[2].insertGraphUri, {"insert-graph-uri"}),
              field(c.args[2].timeout, {"timeout"})}
                 \cup {field(c.args[2][o.field], Family(o.key)) : o \in UriOptions(c.op)}
        ELSE IF c.op \in {"repositoryAdd", "replace"}
        THEN of(c.args[2], {"context", "baseURI"})
        ELSE IF c.op \in {"repositoryGetStatements", "repositoryDelete", "export",
                          "delete", "getStatements"}
        THEN of(c.args[1], {"subj", "pred", "obj", "context", "infer"})
        ELSE IF c.op \in {"clear", "repositorySize", "size"}
        THEN {field(c.args[1], {"context"})}
        ELSE IF c.op = "beginTransaction"
        THEN {field(c.args[1], {"isolation-level"})}
        ELSE IF c.op = "query"
        THEN {field(c.args[2].infer, {"infer"})}
        ELSE IF c.op = "repositoryUpdate"
        THEN {field(c.args[2], {"timeout"})}
        ELSE {}

IsAbsent(v) == v = Undefined \/ v = Scalar(Undefined)

\* C13: for every operation and options record, a field that is undefined or
\* absent puts no key in the request's parameters and nothing in its URL: no
\* parameter and no part of the path is the text "undefined", and none of the
\* field's keys is sent, with an empty value or any other.
C13_AbsentFieldsAreOmitted ==
    \A c \in InFlight :
        /\ \A f \in Fields(c) : IsAbsent(f.value) => f.keys \cap DOMAIN Search(c) = {}
        /\ \A k \in DOMAIN Search(c) : Search(c)[k] # <<"undefined">>
        /\ \A i \in DOMAIN c.req.url.path : c.req.url.path[i] # "undefined"

\* getStatements is in flight with a filter of a subject and the infer flag
\* and nothing else: those two parameters are all it sends.
C13_Witness ==
    \E c \in InFlight :
        /\ c.op = "repositoryGetStatements"
        /\ c.args[1].subj # Undefined
        /\ c.args[1].pred = Undefined
        /\ IsAbsent(c.args[1].context)
        /\ DOMAIN Search(c) = {"subj", "infer"}

\* The operations a statement filter with a list of contexts is given to.
FilterOps == {"repositoryGetStatements", "repositoryDelete", "delete", "getStatements"}

\* The first n texts of a list, a comma between each two.
RECURSIVE CommaSeparated(_, _)
CommaSeparated(items, n) ==
    IF n = 0 THEN <<>>
    ELSE IF n = 1 THEN items[1]
    ELSE CommaSeparated(items, n - 1) \o <<",">> \o items[n]

\* C14: a statement filter's context that is a list is sent as the single
\* parameter context, its value the elements joined by commas in list order;
\* a scalar context is sent unchanged under context; an absent context sends
\* no context parameter.
C14_ContextListIsCommaJoined ==
    \A c \in InFlight : c.op \in FilterOps =>
        LET context == c.args[1].context
        IN  IF context.list
            THEN /\ "context" \in DOMAIN Search(c)
                 /\ Search(c).context = CommaSeparated(context.items, Len(context.items))
            ELSE IF context.value = Undefined
            THEN "context" \notin DOMAIN Search(c)
            ELSE /\ "context" \in DOMAIN Search(c)
                 /\ Search(c).context = context.value.s

\* A delete of a transaction is in flight with a filter of two contexts, sent
\* as one parameter with a comma between them.
C14_Witness ==
    \E c \in InFlight :
        /\ c.op = "delete"
        /\ c.args[1].context = List(<<<<"<c2>">>, <<"<c1>">>>>)
        /\ Search(c).context = <<"<c2>", ",", "<c1>">>

\* The parameters of a filter.
FilterKeys == {"subj", "pred", "obj", "context", "infer"}

\* The parameters of a call's request that are among keys.
Restricted(c, keys) == [k \in DOMAIN Search(c) \cap keys |-> Search(c)[k]]

\* C15 as stated: repository getStatements, delete and export and the
\* transaction's delete and getStatements send, for the same filter, the same
\* filter parameters with the same values.
C15_FilterUsedIdentically ==
    \A c, d \in InFlight :
        /\ c.op \in FilterOps \cup {"export"}
        /\ d.op \in FilterOps \cup {"export"}
        /\ c.args = d.args
        => Restricted(c, FilterKeys) = Restricted(d, FilterKeys)

\* C15, amended: subj, pred, obj and context are sent identically by
\* repository getStatements and delete and the transaction's delete and
\* getStatements; infer is sent by the two getStatements only, never by a
\* delete; export sends the context only, as the others send it.
C15_FilterSharedButInferAndExport ==
    \A c, d \in InFlight :
        (c.op \in FilterOps \cup {"export"} /\ d.op \in FilterOps /\ c.args = d.args) =>
            /\ c.op \in FilterOps =>
                   Restricted(c, FilterKeys \ {"infer"}) = Restricted(d, FilterKeys \ {"infer"})
            /\ c.op \in {"repositoryGetStatements", "getStatements"} =>
                   /\ "infer" \in DOMAIN Search(c) <=> c.args[1].infer # Undefined
                   /\ "infer" \in DOMAIN Search(c) => Search(c).infer = c.args[1].infer.s
            /\ c.op \in {"repositoryDelete", "delete"} => "infer" \notin DOMAIN Search(c)
            /\ c.op = "export" =>
                   Restricted(c, FilterKeys) = Restricted(d, {"context"})

\* A repository delete and a transaction's getStatements are in flight with
\* the same filter of subject, predicate, object, contexts and infer: both
\* send the subject, only getStatements sends infer.
C15_Witness ==
    \E c, d \in InFlight :
        /\ c.op = "repositoryDelete"
        /\ d.op = "getStatements"
        /\ c.args = d.args
        /\ c.args[1].infer = Bool(FALSE)
        /\ c.args[1].context.list
        /\ Search(c).subj = Search(d).subj
        /\ "infer" \in DOMAIN Search(d)
        /\ "infer" \notin DOMAIN Search(c)

\* Options with the bindings as the mapping they are: the set of its entries.
AsMapping(options) ==
    [options EXCEPT !.bindings =
        IF Falsy(options.bindings) THEN options.bindings
        ELSE {options.bindings.entries[i] : i \in DOMAIN options.bindings.entries}]

\* C16: parameter encoding is deterministic and order-independent: the same
\* query string and the same options always give the same parameters, in
\* whatever order the entries of the bindings mapping are supplied.
C16_EncodingIsOrderIndependent ==
    \A c, d \in InFlight :
        /\ c.op \in QueryOps
        /\ d.op = c.op
        /\ c.args[1] = d.args[1]
        /\ AsMapping(c.args[2]) = AsMapping(d.args[2])
        => Search(c) = Search(d)

\* The text a server reads as the body of a request: nothing was sent when
\* fetch was given no body.
BodyText(req) == IF req.body = Undefined THEN <<>> ELSE req.body.s

\* What a server that answers by query text and parameters sees of a query:
\* the query text (the query parameter of a GET, the body of a POST) and the
\* other parameters.
Asked(c) ==
    [query |-> IF c.req.method = "GET" THEN Search(c).query ELSE BodyText(c.req),
     params |-> Restricted(c, DOMAIN Search(c) \ {"query"})]

\* C17: for every SPARQL string and options record, queryPost sends the
\* SPARQL string as its body and, as parameters, those query sends but
\* without the key query, with the same Accept and timeout; a server that
\* answers by query text and parameters is asked the same on both paths.
C17_QueryPostSendsWhatQuerySends ==
    /\ \A d \in InFlight : d.op = "queryPost" =>
           /\ d.req.method = "POST"
           /\ BodyText(d.req) = d.args[1].s
           /\ "query" \notin DOMAIN Search(d)
    /\ \A c, d \in InFlight :
           (c.op = "repositoryQuery" /\ d.op = "queryPost" /\ c.args = d.args) =>
               /\ c.req.method = "GET"
               /\ Search(c).query = c.args[1].s
               /\ Search(d) = Restricted(c, DOMAIN Search(c) \ {"query"})
               /\ d.req.accept = c.req.accept
               /\ d.req.timeout = c.req.timeout
               /\ Asked(c) = Asked(d)

\* query and queryPost are in flight with the same SPARQL string and the same
\* options, which set a limit, a timeout and a binding.
C17_Witness ==
    \E c, d \in InFlight :
        /\ c.op = "repositoryQuery"
        /\ d.op = "queryPost"
        /\ c.args = d.args
        /\ c.args[1] = Sparql
        /\ c.args[2].limit = Number(10)
        /\ c.args[2].timeout = Number(1000)
        /\ Entries(c) # <<>>
        /\ d.req.body = Sparql

\* -------------------------------------------------- absorbed failures

\* C18: repositoryExists and the graph store's exists never fail: a call
\* sends one HEAD request (to the repository, to the graph store's service
\* with the graph) and neither throws nor sends another; it resolves with
\* true when that request succeeded and with false when it failed, whatever
\* the failure.
C18_ExistenceChecksNeverFail ==
    last.op \in {"repositoryExists", "exists"} =>
        /\ last.outcome # "rejected"
        /\ last.kind = "call" =>
               /\ Len(last.sent) = 1
               /\ last.sent[1].method = "HEAD"
               /\ last.sent[1].body = Undefined
               /\ last.op = "repositoryExists" =>
                      \E r \in RepositoryIds :
                          last.sent[1].url.path = baseUrl \o <<"/", "repositories", "/", r>>
               /\ last.op = "exists" =>
                      /\ last.sent[1].url.path =
                             baseUrl \o <<"/", "repositories", "/", repositoryId,
                                          "/", "rdf-graphs", "/", "service">>
                      /\ DOMAIN last.sent[1].url.search = {"graph"}
        /\ last.kind = "settle" =>
               /\ last.sent = <<>>
               /\ last.ret = Bool(last.reply.ok)

\* repositoryExists resolved with false after its request timed out.
C18_Witness ==
    /\ last.kind = "settle"
    /\ last.op = "repositoryExists"
    /\ last.reply = Failure("AbortError")
    /\ last.outcome = "resolved"
    /\ last.ret = Bool(FALSE)

\* C19: getNamespace sends one GET for the prefix; it returns the namespace
\* string when that request succeeded and returns null, raising no error,
\* when the request failed, with "not found" or any other transport failure.
C19_GetNamespaceNullOnFailure ==
    last.op = "getNamespace" =>
        /\ last.outcome # "rejected"
        /\ last.kind = "call" =>
               /\ Len(last.sent) = 1
               /\ last.sent[1].method = "GET"
               /\ last.sent[1].accept = Str(TEXT)
        /\ last.kind = "settle" =>
               /\ last.sent = <<>>
               /\ last.reply.ok => last.ret = last.reply.body /\ last.ret.t = "string"
               /\ ~last.reply.ok => last.ret = Null

\* getNamespace resolved with null after the server answered with an error
\* status.
C19_Witness ==
    /\ last.kind = "settle"
    /\ last.op = "getNamespace"
    /\ last.reply = Failure("RDF4JError")
    /\ last.outcome = "resolved"
    /\ last.ret = Null

\* C20: repositoryExists, the graph store's exists and getNamespace are the
\* only operations that absorb an error: every other operation of the four
\* clients whose request failed is rejected with that failure's error and
\* returns no value.
C20_OtherOperationsPropagate ==
    (last.kind = "settle" /\ ~last.reply.ok) =>
        IF last.op \in {"repositoryExists", "exists", "getNamespace"}
        THEN last.outcome = "resolved"
        ELSE /\ last.outcome = "rejected"
             /\ last.error = last.reply.error
             /\ last.error \in TransportErrors

\* A graph store put was rejected with the network failure of its request.
C20_Witness ==
    /\ last.kind = "settle"
    /\ last.op = "graphPut"
    /\ last.reply = Failure("TypeError")
    /\ last.outcome = "rejected"
    /\ last.error = "TypeError"

\* ------------------------------------------------------ decoded results

\* A plain-text decimal: digits and nothing else.
IsDecimal(text) == text # <<>> /\ \A i \in DOMAIN text : IsDigit(text[i])

\* The integer a decimal denotes, by its last digit.
RECURSIVE Denoted(_)
Denoted(text) ==
    IF text = <<>> THEN 0
    ELSE 10 * Denoted(SubSeq(text, 1, Len(text) - 1)) + DigitValue(text[Len(text)])

Table == last.reply.body.bindings

\* C22: for every tabular response, namespaces() returns a mapping with
\* exactly one key for each prefix occurring in the response's bindings,
\* mapped to that binding's namespace value: no key is extra, none missing.
C22_NamespacesMapEveryPrefix ==
    (/\ last.kind = "settle" /\ last.op = "namespaces" /\ last.reply.ok
     /\ last.reply.body # Undefined
     /\ \A i \in DOMAIN Table : Table[i].prefix # Undefined /\ Table[i].namespace # Undefined
     /\ \A i, j \in DOMAIN Table : Table[i].prefix = Table[j].prefix => i = j) =>
            /\ last.outcome = "resolved"
            /\ DOMAIN last.ret = {Key(Table[i].prefix.s) : i \in DOMAIN Table}
            /\ \A i \in DOMAIN Table : last.ret[Key(Table[i].prefix.s)] = Table[i].namespace.s

\* C23: the Transaction-not-active error is told apart from every transport
\* failure an operation surfaces (error status, network failure, timeout)
\* by the status code: the local error carries none, and the error of
\* every failed request carries one.
C23_StatusTellsLocalFromTransport ==
    (last.outcome = "rejected" /\ last.op # "none") =>
        /\ last.error = TransactionNotActive => status(last.error) = Undefined
        /\ (last.kind = "settle" /\ ~last.reply.ok) => status(last.error) # Undefined

\* ---------------------------------------------------------------- formats

\* The tags of ContentTypes that the operations and callers of the model use.
Tags == {Str(t) : t \in {TURTLE, SPARQL_QUERY, SPARQL_UPDATE, SPARQL_RESULTS_JSON, JSON, TEXT}}

\* The operations whose response is RDF or a SPARQL result.
ResultOps ==
    {"getConfig", "repositoryQuery", "ask", "queryPost", "construct", "describe",
     "repositoryGetStatements", "export", "contexts", "namespaces", "listRepositories",
     "query", "getStatements", "getDefault", "graphGet", "getDirect"}

\* C24: every request that carries a body is sent with a Content-Type of
\* ContentTypes, which for RDF and SPARQL bodies (every body but the
\* namespace text of setNamespace) is not the transport's fallback for
\* untagged bodies; every request whose response is RDF or a SPARQL result
\* is sent with an Accept of ContentTypes.
C24_FormatsAreTagged ==
    \A c \in InFlight :
        /\ c.req.body # Undefined =>
              /\ c.req.contentType \in Tags
              /\ c.op # "setNamespace" => c.req.contentType \notin {Str(TEXT), Str(JSON)}
        /\ c.op \in ResultOps => c.req.accept \in Tags

\* queryPost is in flight: its body is tagged as a SPARQL query and its
\* Accept asks for SPARQL JSON results.
C24_Witness ==
    \E c \in InFlight :
        /\ c.op = "queryPost"
        /\ c.req.body # Undefined
        /\ c.req.contentType = Str(SPARQL_QUERY)
        /\ c.req.accept = Str(SPARQL_RESULTS_JSON)

\* -------------------------------------------------------------- graph store

\* The addressing mode and the verb of each graph store operation.
Mode ==
    [getDefault |-> "default", putDefault |-> "default", postDefault |-> "default",
     deleteDefault |-> "default", graphGet |-> "indirect", graphPut |-> "indirect",
     graphPost |-> "indirect", graphDelete |-> "indirect", getDirect |-> "direct",
     putDirect |-> "direct", postDirect |-> "direct", deleteDirect |-> "direct"]

Verb ==
    [getDefault |-> "GET", putDefault |-> "PUT", postDefault |-> "POST",
     deleteDefault |-> "DELETE", graphGet |-> "GET", graphPut |-> "PUT",
     graphPost |-> "POST", graphDelete |-> "DELETE", getDirect |-> "GET",
     putDirect |-> "PUT", postDirect |-> "POST", deleteDirect |-> "DELETE"]

\* The arguments of a graph store call after the graph it names.
Payload(c) == IF Mode[c.op] = "default" THEN c.args ELSE Tail(c.args)

\* C25: in each of the three addressing modes get, put, post and delete
\* send a GET, PUT, POST and DELETE request with the same handling of body,
\* Content-Type and Accept (put and post send the data under the given tag,
\* get asks for the given format or Turtle, delete sends neither); only the
\* address differs: .../rdf-graphs/service?default for the default graph,
\* .../rdf-graphs/service with the parameter graph for an indirect named
\* graph, .../rdf-graphs/{percent-encoded name} for a direct one.
C25_ModesDifferOnlyInAddress ==
    \A c \in InFlight : c.op \in DOMAIN Mode =>
        LET writes == Verb[c.op] \in {"PUT", "POST"}
            graphs == baseUrl \o <<"/", "repositories", "/", repositoryId, "/", "rdf-graphs">>
        IN  /\ c.req.method = Verb[c.op]
            /\ c.req.body = IF writes THEN Payload(c)[1] ELSE Undefined
            /\ c.req.contentType = IF writes THEN Payload(c)[2] ELSE Undefined
            /\ c.req.accept = IF Verb[c.op] # "GET" THEN Undefined
                              ELSE IF Payload(c)[1] = Undefined THEN Str(TURTLE)
                              ELSE Payload(c)[1]
            /\ Mode[c.op] = "default" =>
                  /\ c.req.url.path = graphs \o <<"/", "service", "?", "default">>
                  /\ DOMAIN c.req.url.search = {}
            /\ Mode[c.op] = "indirect" =>
                  /\ c.req.url.path = graphs \o <<"/", "service">>
                  /\ DOMAIN c.req.url.search = {"graph"}
                  /\ c.req.url.search["graph"] = c.args[1].s
            /\ Mode[c.op] = "direct" =>
                  /\ c.args[1] = <<"a", "/", "b">> =>
                        c.req.url.path = graphs \o <<"/", "a", "%2F", "b">>
                  /\ DOMAIN c.req.url.search = {}

\* putDirect is in flight for the graph name a/b: a PUT of the data to
\* .../rdf-graphs/a%2Fb.
C25_Witness ==
    \E c \in InFlight :
        /\ c.op = "putDirect"
        /\ c.args[1] = <<"a", "/", "b">>
        /\ c.req.method = "PUT"
        /\ c.req.body = c.args[2]
        /\ c.req.url.path[Len(c.req.url.path) - 1] = "%2F"

\* ------------------------------------------------- overlapping terminations

\* C26: the liveness check and the flag update of a handle are not one atomic
\* step.  While a commit or rollback request of a handle is in flight and the
\* flag is still true, every further call on the handle (a commit, a
\* rollback or a data operation) passes the check and sends its own request;
\* and a commit or rollback whose request succeeded reports success also
\* when another one has closed the handle meanwhile.  So two terminating
\* requests can be sent for one transaction and both calls can resolve.
C26_CheckAndFlagAreNotAtomic ==
    [][/\ \A h \in Handles :
             (/\ last'.kind = "call" /\ last'.h = h /\ last'.op \in GuardedOps
              /\ handles[h].active
              /\ \E c \in InFlight : c.op \in CloseOps /\ c.h = h) =>
                 /\ last'.outcome = "pending"
                 /\ \E d \in Sent : d.op = last'.op /\ d.h = h
       /\ \A c \in Done :
             (c.op \in CloseOps /\ last'.reply.ok) =>
                 /\ last'.outcome = "resolved"
                 /\ ~handles'[c.h].active]_vars

\* Two terminating requests were sent for one transaction: a commit has
\* reported success and closed the handle, and the request of a rollback of
\* the same handle, sent while the commit was in flight, is awaiting its
\* response.
C26_Witness ==
    /\ last.kind = "settle"
    /\ last.op = "commit"
    /\ last.outcome = "resolved"
    /\ ~handles[last.h].active
    /\ \E c \in InFlight : c.op = "rollback" /\ c.h = last.h

\* ------------------------------------------------------------ option values

\* C27: the boolean and numeric options of a query reach the wire by value:
\* infer = false and distinct = false are sent as the parameter "false",
\* limit = 0 and offset = 0 as the parameter "0" (and true, 10 and 5 as
\* "true", "10" and "5"); none of them is dropped as if it were absent.
C27_FalsyOptionsAreSent ==
    \A c \in InFlight : c.op \in QueryOps =>
        LET options == c.args[2]
            sent(key, text) == key \in DOMAIN Search(c) /\ Search(c)[key] = <<text>>
        IN  /\ options.infer = Bool(FALSE) => sent("infer", "false")
            /\ options.distinct = Bool(FALSE) => sent("distinct", "false")
            /\ options.limit = Number(0) => sent("limit", "0")
            /\ options.offset = Number(0) => sent("offset", "0")
            /\ options.infer = Bool(TRUE) => sent("infer", "true")
            /\ options.distinct = Bool(TRUE) => sent("distinct", "true")
            /\ options.limit = Number(10) => sent("limit", "10")
            /\ options.offset = Number(5) => sent("offset", "5")

\* A query with infer = false, distinct = false, limit = 0 and offset = 0 is
\* in flight with the four parameters on the wire.
C27_Witness ==
    \E c \in InFlight :
        /\ c.op = "repositoryQuery"
        /\ c.args[2].infer = Bool(FALSE)
        /\ c.args[2].distinct = Bool(FALSE)
        /\ c.args[2].limit = Number(0)
        /\ c.args[2].offset = Number(0)
        /\ {"infer", "distinct", "limit", "offset"} \subseteq DOMAIN Search(c)
        /\ Search(c)["limit"] = <<"0">>
        /\ Search(c)["infer"] = <<"false">>

\* ------------------------------------------------------------- local state

\* C28: the only local state an operation changes is the liveness flag of a
\* handle.  The repository a client addresses and the two identifiers of a
\* handle never change; a handle's flag changes only in the step that
\* settles a successful commit or rollback of that handle (beginTransaction
\* constructs a new handle and changes none that exists); so a step of any
\* other operation leaves every object as it was, and two calls of one
\* operation on one object with the same arguments build the same request,
\* whatever was called or answered between them.
C28_OnlyTheFlagIsLocalState ==
    [][/\ repositoryId' = repositoryId
       /\ \A h \in Handles :
             /\ h \in DOMAIN handles'
             /\ handles'[h] \in {handles[h], [handles[h] EXCEPT !.active = FALSE]}
             /\ handles'[h] # handles[h] =>
                   /\ last'.kind = "settle"
                   /\ last'.op \in CloseOps
                   /\ last'.h = h
                   /\ last'.outcome = "resolved"
       /\ \A c, d \in BagToSet(inflight') :
             (c.op = d.op /\ c.h = d.h /\ c.args = d.args) => c.req = d.req]_vars

\* A second putDirect was called while a first one with the same arguments
\* awaits its response: both requests are the same, and the client is as it
\* was constructed.
C28_Witness ==
    /\ last.kind = "call"
    /\ last.op = "putDirect"
    /\ last.outcome = "pending"
    /\ \E c \in InFlight : c.op = "putDirect" /\ <<c.req>> = last.sent /\ CopiesIn(c, inflight) = 2
    /\ repositoryId = "repo1"
    /\ handles = <<TransactionClient("repo1", TxnId(1))>>

\* ------------------------------------------------- the transaction's query

\* The keys the encoder of the repository's query sends for the options that
\* the transaction's query leaves out.
Unforwarded ==
    {"distinct", "limit", "offset"} \cup Family("default-graph-uri")
        \cup Family("named-graph-uri") \cup BindingKeys

\* C29: a query on a transaction handle forwards of its options only infer,
\* as a parameter, and timeout: its parameters are action and, when infer is
\* given, infer; no key of defaultGraphUri, namedGraphUri, bindings,
\* distinct, limit or offset is among them.  The repository's query sends
\* distinct, limit and offset when they are given, and a key for a given
\* graph URI and for given bindings.
C29_TransactionQueryForwardsInferOnly ==
    \A c \in InFlight :
        /\ (c.op = "query" /\ c.h # 0) =>
              /\ DOMAIN Search(c) =
                    {"action"} \cup (IF c.args[2].infer = Undefined THEN {} ELSE {"infer"})
              /\ Search(c)["action"] = <<"QUERY">>
              /\ c.args[2].infer # Undefined => Search(c)["infer"] = c.args[2].infer.s
              /\ DOMAIN Search(c) \cap Unforwarded = {}
              /\ c.req.timeout = c.args[2].timeout
        /\ c.op = "repositoryQuery" =>
              /\ \A k \in {"distinct", "limit", "offset"} :
                    c.args[2][k] # Undefined => k \in DOMAIN Search(c)
              /\ \A o \in UriOptions(c.op) :
                    (c.args[2][o.field].list /\ c.args[2][o.field].items # <<>>) =>
                        o.key \in DOMAIN Search(c)
              /\ Entries(c) # <<>> => BindingKeys \cap DOMAIN Search(c) # {}

\* A query is in flight on a handle with distinct, limit, offset and bindings
\* among its options: it sends action and infer only.
C29_Witness ==
    \E c \in InFlight :
        /\ c.op = "query"
        /\ c.h # 0
        /\ c.args[2].distinct = Bool(TRUE)
        /\ c.args[2].limit = Number(10)
        /\ c.args[2].offset = Number(5)
        /\ ~Falsy(c.args[2].bindings)
        /\ c.args[2].timeout = Number(1000)
        /\ DOMAIN Search(c) = {"action", "infer"}
        /\ c.req.timeout = Number(1000)

\* ---------------------------------------------------- reserved parameters

\* The keys of the parameters a query derives from its query string and from
\* the options other than bindings.
Reserved ==
    {"query", "queryLn", "infer", "distinct", "limit", "offset"}
        \cup Family("default-graph-uri") \cup Family("named-graph-uri")

\* The parameters of the same call had it been given no bindings.
WithoutBindings(c) ==
    RepositoryClientRequest(c.op, repositoryId,
        <<c.args[1], [c.args[2] EXCEPT !.bindings = Undefined]>>).url.search

\* C30: no binding overwrites a reserved parameter of a query.  For every
\* bindings mapping the keys query, queryLn, infer, distinct, limit, offset
\* and those of default-graph-uri and named-graph-uri are sent exactly when,
\* and with the values, they are sent without the bindings (query is the
\* query string, queryLn is sparql), because the key of every binding, which
\* starts with "$", is none of them.
C30_BindingsLeaveReservedKeys ==
    \A c \in InFlight : c.op \in QueryOps =>
        /\ DOMAIN Search(c) \cap Reserved = DOMAIN WithoutBindings(c)
        /\ \A k \in DOMAIN WithoutBindings(c) : Search(c)[k] = WithoutBindings(c)[k]
        /\ "query" \in DOMAIN Search(c) => Search(c)["query"] = c.args[1].s
        /\ Search(c)["queryLn"] = <<"sparql">>
        /\ \A i \in DOMAIN Entries(c) :
              /\ Prefixed(Entries(c)[i].name) \notin Reserved
              /\ Prefixed(Entries(c)[i].name) \in DOMAIN Search(c)

\* A query with limit = 10 and bindings for variables named limit and
\* default-graph-uri is in flight: limit is sent as 10 and the binding under
\* $limit.
C30_Witness ==
    \E c \in InFlight :
        /\ c.op = "repositoryQuery"
        /\ c.args[2].limit = Number(10)
        /\ \E i \in DOMAIN Entries(c) : Entries(c)[i].name = <<"limit">>
        /\ Search(c)["limit"] = <<"10">>
        /\ Search(c)["$limit"] = <<"99">>
        /\ "default-graph-uri" \notin DOMAIN Search(c)
        /\ "$default-graph-uri" \in DOMAIN Search(c)

====
